---- MODULE Spec2Model ----
(***************************************************************************)
(* A model of the GenRefactorer assistant core: McpBridge (the             *)
(* reconnecting WebSocket client), AssistantEventBus, ActionOrchestrator   *)
(* (the action registry), McpCoordinator (inbound frame dispatch,          *)
(* in-flight tracking, edit application and task execution),               *)
(* AssistantPanelProvider (the log history and the webview) and            *)
(* AutoRefactorController (debounced background refactoring).              *)
(*                                                                         *)
(* The host is single threaded: every handler runs to completion, so each  *)
(* action below is one callback (a command, a socket event, a timer, a     *)
(* resolved promise) together with every call it makes.  Handlers are      *)
(* written as operators from a world record to a world record so that a    *)
(* nested call (updateState -> publishBridgeState -> clearRemoteActions)   *)
(* is part of the action that makes it.                                    *)
(***************************************************************************)
EXTENDS Integers, Sequences, FiniteSets, TLC

VARIABLES
  \* McpBridge
  config, socket, reconnectTimer, state, lastMessage, disposed, retryCount,
  \* the environment of the bridge: WebSocket objects (ready state, whether
  \* the bridge's listeners are attached, whether the hello frame went out on
  \* the connection), the delay of the timer armed last and the number of
  \* timers that are armed in the host
  sockets, reconnectDelay, timers,
  \* the platform of the extension host: whether it is Windows
  isWindows,
  \* McpCoordinator
  remoteActions, inflightActions, coordDisposed,
  \* ActionOrchestrator
  actionMap, actionSources, sourceIndex, orchDisposed,
  \* work the coordinator awaits: applyEdit promises and child processes
  pendingEdits, procs,
  \* what the last step published on the bus, and which call it was
  emitted, last,
  \* AssistantEventBus: the log sequence; the entries log() has returned and
  \* the entries it has delivered to its listeners, in call order
  logSequence, busDisposed, issued, delivered,
  \* AssistantPanelProvider: the log history, whether a webview is resolved,
  \* the messages the last step posted to it, whether dispose() has removed
  \* the panel's listeners from the bus, whether it holds a context snapshot
  logEntries, view, posted, panelDisposed, contextSnapshot,
  \* AutoRefactorController: the debounce timers (by document key), the stored
  \* suggestions, the request counter and the status bar text; with them the
  \* host's side: the preview of each document, the version of each document
  \* and the promises runRefactor awaits that are not settled yet; whether
  \* dispose() has run
  debounceTimers, suggestions, activeRequest, statusText,
  previews, docVersion, requests, autoDisposed

autoVars == << debounceTimers, suggestions, activeRequest, statusText,
               previews, docVersion, requests, autoDisposed >>

\* the bridge, the coordinator and the registry
coreVars == << config, socket, reconnectTimer, state, lastMessage, disposed,
               retryCount, sockets, reconnectDelay, timers, isWindows, remoteActions,
               inflightActions,
               coordDisposed, actionMap, actionSources, sourceIndex, orchDisposed,
               pendingEdits, procs >>

busVars == << logSequence, busDisposed, issued, delivered >>

panelVars == << logEntries, view, posted, panelDisposed, contextSnapshot >>

vars == << config, socket, reconnectTimer, state, lastMessage, disposed, retryCount,
           sockets, reconnectDelay, timers, isWindows,
           remoteActions, inflightActions, coordDisposed,
           actionMap, actionSources, sourceIndex, orchDisposed,
           pendingEdits, procs, emitted, last,
           logSequence, busDisposed, issued, delivered, logEntries, view, posted,
           panelDisposed, contextSnapshot,
           debounceTimers, suggestions, activeRequest, statusText,
           previews, docVersion, requests, autoDisposed >>

----------------------------------------------------------------------------
\* Bounds of the model

MaxSockets == 3
MaxRetry == 7
MaxActions == 2
MaxProcs == 2
MaxSeqLen == 2
MaxPendingEdits == 1
MaxLogCalls == 54
MaxPublishedAt == 2
MaxHandlerLogs == 11
MaxTimerLogs == 24
MaxVersion == 2
MaxRequests == 2

\* Program constants
MAX_BACKOFF_MS == 30000
LOG_LIMIT == 50

UNDEF == "undefined"

\* the documents of the workspace, by the key the controller uses
Docs == { "file:///a.ts", "file:///b.ts" }

Min(a, b) == IF a < b THEN a ELSE b

SocketIds == 1 .. MaxSockets

\* endpoint values: none configured, a reachable URL, a string the WebSocket
\* constructor rejects
Endpoints == { UNDEF, "ws://host", "not-a-url" }

Configurations == [ enabled : BOOLEAN, endpoint : Endpoints ]

DEFAULT_CONFIG == [ enabled |-> FALSE, endpoint |-> UNDEF ]

\* remote action ids a server may advertise
RemoteIds == { "fmt", "lint", "mcp:fmt" }

\* ids of getDefaultAssistantActions(), in the order of the list
LocalIdList == << "refactor-selection", "explain-selection", "selection-actions",
                 "refresh-context", "send-context-mcp", "chat-with-mcp" >>

LocalIds == { LocalIdList[k] : k \in DOMAIN LocalIdList }

----------------------------------------------------------------------------
\* The world record: every variable, plus what one handler run leaves besides:
\* ret, the value the outermost call returned; completed, the calls of
\* completeAction it made; overflow, set when it needs more socket objects
\* than the model holds.

World ==
  [ config |-> config, socket |-> socket, reconnectTimer |-> reconnectTimer,
    state |-> state, lastMessage |-> lastMessage, disposed |-> disposed,
    retryCount |-> retryCount, sockets |-> sockets,
    reconnectDelay |-> reconnectDelay, timers |-> timers, isWindows |-> isWindows,
    remoteActions |-> remoteActions, inflightActions |-> inflightActions,
    coordDisposed |-> coordDisposed,
    actionMap |-> actionMap, actionSources |-> actionSources,
    sourceIndex |-> sourceIndex, orchDisposed |-> orchDisposed,
    pendingEdits |-> pendingEdits, procs |-> procs,
    logSequence |-> logSequence, busDisposed |-> busDisposed,
    issued |-> issued, delivered |-> delivered,
    logEntries |-> logEntries, view |-> view, panelDisposed |-> panelDisposed,
    contextSnapshot |-> contextSnapshot,
    emitted |-> << >>, posted |-> << >>,
    ret |-> FALSE, completed |-> << >>, overflow |-> FALSE ]

Commit(w, op, input) ==
  /\ config' = w.config
  /\ socket' = w.socket
  /\ reconnectTimer' = w.reconnectTimer
  /\ state' = w.state
  /\ lastMessage' = w.lastMessage
  /\ disposed' = w.disposed
  /\ retryCount' = w.retryCount
  /\ sockets' = w.sockets
  /\ reconnectDelay' = w.reconnectDelay
  /\ timers' = w.timers
  /\ isWindows' = w.isWindows
  /\ remoteActions' = w.remoteActions
  /\ inflightActions' = w.inflightActions
  /\ coordDisposed' = w.coordDisposed
  /\ actionMap' = w.actionMap
  /\ actionSources' = w.actionSources
  /\ sourceIndex' = w.sourceIndex
  /\ orchDisposed' = w.orchDisposed
  /\ pendingEdits' = w.pendingEdits
  /\ procs' = w.procs
  /\ logSequence' = w.logSequence
  /\ busDisposed' = w.busDisposed
  /\ issued' = w.issued
  /\ delivered' = w.delivered
  /\ logEntries' = w.logEntries
  /\ view' = w.view
  /\ panelDisposed' = w.panelDisposed
  /\ contextSnapshot' = w.contextSnapshot
  /\ emitted' = w.emitted
  /\ posted' = w.posted
  /\ last' = [ op |-> op, input |-> input, ret |-> w.ret, completed |-> w.completed ]
  /\ UNCHANGED autoVars

----------------------------------------------------------------------------
\* AssistantEventBus and the panel that listens to it.  An event is a record
\* of one shape
\*   status        tag = status, n = in-flight count carried by the message
\*   log           tag = message key, id = level
\*   actions       n = number of actions published
\*   bridgeState   tag = state, id = message
\*   bridgeMessage tag = direction, id = message type, arg = payload action id
\*   context       the workspace snapshot, which is not modelled
\* emitted lists the publish calls of a step, whether or not a listener is
\* left; the calls of window.showWarningMessage (warning) and of
\* terminal.sendText (sendText) are listed with them.

Ev(ev, tag, id, n, arg) == [ ev |-> ev, tag |-> tag, id |-> id, n |-> n, arg |-> arg ]

Post(type, payload) == [ type |-> type, payload |-> payload ]

\* postMessage reaches the webview only when one is resolved
postMessage(hasView, message) == IF hasView THEN << message >> ELSE << >>

\* a history that makes room before it is full
addLogEntry_shiftsEarly(entries, entry) ==
  LET pushed == Append(entries, entry)
  IN IF Len(pushed) >= LOG_LIMIT THEN Tail(pushed) ELSE pushed

\* AssistantPanelProvider.addLogEntry: push, then shift when over the limit
addLogEntry(entries, entry) ==
  LET pushed == Append(entries, entry)
  IN IF Len(pushed) > LOG_LIMIT THEN Tail(pushed) ELSE pushed

\* the listeners the panel's constructor subscribes to the status, context,
\* actions and bridge-state events: each keeps the payload and posts it
\* (payloads other than log entries are not modelled).  The listener of the
\* log event is in publishLog, which has the entry; no handler modelled here
\* publishes a chat message.
panelListener(w, e) ==
  CASE e.ev = "status" ->
         [ w EXCEPT !.posted = @ \o postMessage(w.view, Post("assistant.status", UNDEF)) ]
    [] e.ev = "context" ->
         [ w EXCEPT !.contextSnapshot = TRUE,
                    !.posted = @ \o postMessage(w.view, Post("assistant.context", UNDEF)) ]
    [] e.ev = "actions" ->
         [ w EXCEPT !.posted = @ \o postMessage(w.view, Post("assistant.actions", UNDEF)) ]
    [] e.ev = "bridgeState" ->
         [ w EXCEPT !.posted = @ \o postMessage(w.view, Post("assistant.bridge", UNDEF)) ]
    [] OTHER -> w

\* EventEmitter.fire: the listeners run inside the call; an emitter that is
\* disposed has none, and the panel's dispose() removes the panel's.  (The
\* world is bound once, as x, so that it is computed once; so in publishLog
\* and the publish operators below.)
Fire(w, e) ==
  CHOOSE r \in { IF x.busDisposed \/ x.panelDisposed THEN x ELSE panelListener(x, e) :
                   x \in { [ w EXCEPT !.emitted = Append(@, e) ] } } : TRUE

publishStatus(w, status, n) == Fire(w, Ev("status", status, "", n, ""))

\* AssistantEventBus.publishContext
publishContext(w) == Fire(w, Ev("context", "", "", 0, ""))

\* a bus that stops counting once it is disposed
busLog_stopsWhenDisposed(bus, message, level) ==
  LET sequence == IF bus.disposed THEN bus.logSequence ELSE bus.logSequence + 1
  IN [ logSequence |-> sequence,
       entry |-> [ id |-> "log-" \o ToString(sequence), message |-> message,
                   level |-> level ] ]

\* AssistantEventBus.log on a bus [logSequence, disposed]: the new sequence
\* and the entry returned (its timestamp is not modelled)
busLog(bus, message, level) ==
  LET sequence == bus.logSequence + 1
  IN [ logSequence |-> sequence,
       entry |-> [ id |-> "log-" \o ToString(sequence), message |-> message,
                   level |-> level ] ]

\* An entry that is kept (in the panel's history, and in issued and
\* delivered) is kept by its id: the message and the level of an entry are
\* those of the log event of the step that issued it.
Kept(entry) == [ id |-> entry.id ]

\* AssistantEventBus.publishLog: the log event is fired for the entry the
\* caller supplies.  delivered lists the entries fired while the emitter has
\* listeners; the panel's listener, while the panel has not removed it, adds
\* the entry to the history and posts it.
publishLog(w, entry) ==
  CHOOSE r \in
    { IF x.busDisposed THEN x
      ELSE IF x.panelDisposed
      THEN [ x EXCEPT !.delivered = Append(@, Kept(entry)) ]
      ELSE [ x EXCEPT !.delivered = Append(@, Kept(entry)),
                      !.logEntries = addLogEntry(@, Kept(entry)),
                      !.posted = @ \o postMessage(x.view,
                                                  Post("assistant.log", Kept(entry))) ] :
      x \in { [ w EXCEPT !.emitted =
                           Append(@, Ev("log", entry.message, entry.level, 0, "")) ] } } :
    TRUE

\* bus.log as a handler calls it: the sequence advances and the entry built
\* from it is published
log(w, message, level) ==
  CHOOSE result \in
    { LET r == busLog([ logSequence |-> x.logSequence, disposed |-> x.busDisposed ],
                      message, level)
      IN publishLog([ x EXCEPT !.logSequence = r.logSequence,
                               !.issued = Append(@, Kept(r.entry)) ],
                    r.entry) :
      x \in { w } } : TRUE

publishActions(w) ==
  Fire(w, Ev("actions", "", "", Cardinality(DOMAIN w.actionMap), ""))

----------------------------------------------------------------------------
\* ActionOrchestrator

Without(f, ids) == [ x \in DOMAIN f \ ids |-> f[x] ]

With(f, k, v) == [ x \in DOMAIN f \cup {k} |-> IF x = k THEN v ELSE f[x] ]

removeIdFromSource(w, id, source) ==
  IF source \notin DOMAIN w.sourceIndex THEN w
  ELSE LET bucket == w.sourceIndex[source] \ {id}
       IN IF bucket = {}
          THEN [ w EXCEPT !.sourceIndex = Without(@, {source}) ]
          ELSE [ w EXCEPT !.sourceIndex = With(@, source, bucket) ]

\* the eviction is guarded by the truthiness of the recorded source
\* (existingSource && ...): an id recorded under the empty string stays in
\* the bucket of the empty string when it is filed under another source
addAction(w, action, source) ==
  LET normalizedSource == IF action.source # UNDEF THEN action.source ELSE source
      normalizedAction == [ action EXCEPT !.source = normalizedSource ]
      w1 == IF /\ action.id \in DOMAIN w.actionSources
               /\ w.actionSources[action.id] # ""
               /\ w.actionSources[action.id] # normalizedSource
            THEN removeIdFromSource(w, action.id, w.actionSources[action.id])
            ELSE w
      bucket == IF normalizedSource \in DOMAIN w1.sourceIndex
                THEN w1.sourceIndex[normalizedSource] ELSE {}
  IN [ w1 EXCEPT !.actionMap = With(@, action.id, normalizedAction),
                 !.actionSources = With(@, action.id, normalizedSource),
                 !.sourceIndex = With(@, normalizedSource, bucket \cup {action.id}) ]

\* a removal that empties the bucket and forgets the action map
removeActionsBySource_keepsMap(w, source) ==
  IF source \notin DOMAIN w.sourceIndex \/ w.sourceIndex[source] = {} THEN w
  ELSE [ w EXCEPT !.actionSources = Without(@, w.sourceIndex[source]),
                  !.sourceIndex = With(@, source, {}) ]

removeActionsBySource(w, source) ==
  IF source \notin DOMAIN w.sourceIndex \/ w.sourceIndex[source] = {} THEN w
  ELSE LET bucket == w.sourceIndex[source]
       IN [ w EXCEPT !.actionMap = Without(@, bucket),
                     !.actionSources = Without(@, bucket),
                     !.sourceIndex = With(@, source, {}) ]

RECURSIVE addActions(_, _, _)
addActions(w, actions, source) ==
  IF actions = << >> THEN w
  ELSE addActions(addAction(w, Head(actions), source), Tail(actions), source)

\* ActionOrchestrator.dispose: the three maps are cleared, once, and nothing
\* is published; the other calls do not look at the flag
orchestratorDispose(w) ==
  IF w.orchDisposed THEN w
  ELSE [ w EXCEPT !.actionMap = << >>, !.actionSources = << >>,
                  !.sourceIndex = << >>, !.orchDisposed = TRUE ]

setActionsForSource(w, source, actions) ==
  publishActions(addActions(removeActionsBySource(w, source), actions, source))

registerAction(w, action, source) == publishActions(addAction(w, action, source))

----------------------------------------------------------------------------
\* McpCoordinator: the bridge-state listener

\* a disconnect that also forgets the actions in flight
clearRemoteActions_dropsInflight(w) ==
  log(setActionsForSource([ w EXCEPT !.remoteActions = << >>, !.inflightActions = {} ],
                          "mcp", << >>),
      "Cleared MCP actions due to bridge disconnect.", "info")

clearRemoteActions(w) ==
  log(setActionsForSource([ w EXCEPT !.remoteActions = << >> ], "mcp", << >>),
      "Cleared MCP actions due to bridge disconnect.", "info")

\* a listener that reacts to the disconnected state only
onBridgeStateChanged_onlyDisconnected(w, st) ==
  IF ~w.coordDisposed /\ st = "disconnected"
  THEN clearRemoteActions(w) ELSE w

onBridgeStateChanged(w, st) ==
  IF ~w.coordDisposed /\ st \in { "disconnected", "error" }
  THEN clearRemoteActions(w) ELSE w

\* bus.publishBridgeState: the panel's listener, then the coordinator's
publishBridgeState(w, st, message) ==
  CHOOSE r \in { IF x.busDisposed THEN x ELSE onBridgeStateChanged(x, st) :
                   x \in { Fire(w, Ev("bridgeState", st, message, 0, "")) } } : TRUE

----------------------------------------------------------------------------
\* McpBridge

Pow2(n) == 2 ^ n

\* the delay without the cap
BackoffDelay_uncapped(retry) == 1000 * Pow2(Min(retry, 5))

BackoffDelay(retry) == Min(1000 * Pow2(Min(retry, 5)), MAX_BACKOFF_MS)

\* an update that publishes whether the pair changed or not
updateState_always(w, st, message) ==
  publishBridgeState([ w EXCEPT !.state = st, !.lastMessage = message ], st, message)

updateState(w, st, message) ==
  IF w.state = st /\ w.lastMessage = message THEN w
  ELSE publishBridgeState([ w EXCEPT !.state = st, !.lastMessage = message ],
                          st, message)

\* a clearReconnect that forgets the handle without clearing the timer
clearReconnect_forgetsHandle(w) ==
  IF w.reconnectTimer # UNDEF THEN [ w EXCEPT !.reconnectTimer = UNDEF ] ELSE w

\* clearTimeout on the handle the field holds; a handle of a fired timer is
\* kept in the field until then
clearReconnect(w) ==
  IF w.reconnectTimer # UNDEF
  THEN [ w EXCEPT !.reconnectTimer = UNDEF,
                  !.timers = IF w.reconnectTimer = "pending" THEN @ - 1 ELSE @ ]
  ELSE w

\* a close that terminates the socket and leaves its listeners attached
closeSocket_keepsListeners(w) ==
  IF w.socket # 0
  THEN [ w EXCEPT !.sockets[w.socket] =
                     [ rs |-> IF @.rs = "CLOSED" THEN "CLOSED" ELSE "CLOSING",
                       attached |-> @.attached, greeted |-> FALSE ],
                  !.socket = 0 ]
  ELSE w

\* terminate() destroys the connection at once; the socket's own close event
\* is emitted later, when the listeners are gone
closeSocket(w) ==
  IF w.socket # 0
  THEN [ w EXCEPT !.sockets[w.socket] =
                     [ rs |-> IF @.rs = "CLOSED" THEN "CLOSED" ELSE "CLOSING",
                       attached |-> FALSE, greeted |-> FALSE ],
                  !.socket = 0 ]
  ELSE w

handleError(w, message) ==
  updateState(log(w, "MCP bridge error", "error"), "error", message)

\* a bridge that gives up after three attempts
scheduleReconnect_givesUp(w) ==
  IF w.disposed \/ ~w.config.enabled \/ w.retryCount >= 3 THEN w
  ELSE LET w1 == clearReconnect(w)
           w2 == [ w1 EXCEPT !.retryCount = @ + 1 ]
       IN [ w2 EXCEPT !.reconnectTimer = "pending", !.timers = @ + 1,
                      !.reconnectDelay = BackoffDelay(w2.retryCount) ]

scheduleReconnect(w) ==
  IF w.disposed \/ ~w.config.enabled THEN w
  ELSE LET w1 == clearReconnect(w)
           w2 == [ w1 EXCEPT !.retryCount = @ + 1 ]
           delay == BackoffDelay(w2.retryCount)
           w3 == log(w2, "Retrying MCP bridge connection", "warn")
       IN [ w3 EXCEPT !.reconnectTimer = "pending", !.timers = @ + 1,
                      !.reconnectDelay = delay ]

\* the WebSocket constructor throws on a string that is no URL
ConstructorThrows(endpoint) == endpoint = "not-a-url"

FreeSocketIds(w) == { i \in SocketIds : w.sockets[i].rs = "CLOSED" }

NewSocketId(w) == CHOOSE i \in FreeSocketIds(w) : \A j \in FreeSocketIds(w) : i <= j

\* a connect without the disposed check
connect_ignoresDisposed(w) ==
  LET endpoint == w.config.endpoint
      w1 == log(updateState(w, "connecting", "Connecting to " \o endpoint),
                "Connecting to MCP bridge", "info")
  IN IF ConstructorThrows(endpoint)
     THEN scheduleReconnect(handleError(w1, "Invalid URL"))
     ELSE IF FreeSocketIds(w1) = {}
     THEN [ w1 EXCEPT !.overflow = TRUE ]
     ELSE LET i == NewSocketId(w1)
          IN [ w1 EXCEPT !.socket = i,
                         !.sockets[i] = [ rs |-> "CONNECTING", attached |-> TRUE,
                                          greeted |-> FALSE ] ]

connect(w) ==
  IF w.disposed THEN w
  ELSE LET endpoint == w.config.endpoint
           w1 == log(updateState(w, "connecting", "Connecting to " \o endpoint),
                     "Connecting to MCP bridge", "info")
       IN IF ConstructorThrows(endpoint)
          THEN scheduleReconnect(handleError(w1, "Invalid URL"))
          ELSE IF FreeSocketIds(w1) = {}
          THEN [ w1 EXCEPT !.overflow = TRUE ]
          ELSE LET i == NewSocketId(w1)
               IN [ w1 EXCEPT !.socket = i,
                              !.sockets[i] = [ rs |-> "CONNECTING", attached |-> TRUE,
                                          greeted |-> FALSE ] ]

\* a restart that leaves the armed timer alone
restart_keepsTimer(w) ==
  LET w1 == closeSocket(w)
  IN IF ~w1.config.enabled
     THEN updateState(w1, "disconnected", "MCP bridge disabled.")
     ELSE IF w1.config.endpoint = UNDEF
     THEN updateState(w1, "error", "Set mcpEndpoint before enabling.")
     ELSE connect(w1)

\* a restart that leaves the previous socket alone
restart_keepSocket(w) ==
  LET w1 == clearReconnect(w)
  IN IF ~w1.config.enabled
     THEN updateState(w1, "disconnected", "MCP bridge disabled.")
     ELSE IF w1.config.endpoint = UNDEF
     THEN updateState(w1, "error", "Set mcpEndpoint before enabling.")
     ELSE connect(w1)

\* a restart that starts the backoff afresh
restart_resetsRetry(w) ==
  LET w1 == closeSocket(clearReconnect([ w EXCEPT !.retryCount = 0 ]))
  IN IF ~w1.config.enabled
     THEN updateState(w1, "disconnected", "MCP bridge disabled.")
     ELSE IF w1.config.endpoint = UNDEF
     THEN updateState(w1, "error", "Set mcpEndpoint before enabling.")
     ELSE connect(w1)

restart(w) ==
  LET w1 == closeSocket(clearReconnect(w))
  IN IF ~w1.config.enabled
     THEN updateState(w1, "disconnected", "MCP bridge disabled.")
     ELSE IF w1.config.endpoint = UNDEF
     THEN updateState(w1, "error", "Set mcpEndpoint before enabling.")
     ELSE connect(w1)

\* a bridge that restarts only when the configuration changes
applyConfiguration_onlyOnChange(w, partial) ==
  IF partial = w.config THEN w ELSE restart([ w EXCEPT !.config = partial ])

\* partial: the three settings read by applyMcpConfiguration, so that the
\* merge with DEFAULT_CONFIG yields partial itself
applyConfiguration(w, partial) == restart([ w EXCEPT !.config = partial ])

----------------------------------------------------------------------------
\* McpBridge.send and the inbound path

RECURSIVE handleBridgeMessage(_, _, _, _, _)

\* bus.publishBridgeMessage: the event is fired and the coordinator's
\* listener runs inside the call, for inbound and outbound frames alike
publishBridgeMessage(w, direction, frame, actionId, hasWorkspace, throws) ==
  CHOOSE r \in { IF x.busDisposed THEN x
                   ELSE handleBridgeMessage(x, direction, frame, hasWorkspace, throws) :
                   x \in { Fire(w, Ev("bridgeMessage", direction, frame.type, 0, actionId)) } } :
    TRUE

\* the frame send() is given: its type and, for an invocation or a chat
\* message, the action id or the text of its payload
OutboundFrame(type, actionId) == [ type |-> type, payload |-> [ actionId |-> actionId ] ]

\* what a call that can raise did: it returned, or it raised an exception
\* with this message (error.message, or String(error) for a value that is
\* no Error)
NoThrow == [ raised |-> FALSE, message |-> "" ]

Thrown(message) == [ raised |-> TRUE, message |-> message ]

\* a send that announces the frame before it is serialized and transmitted
send_publishesFirst(w, type, actionId, silent, throws) ==
  IF w.socket = 0 \/ w.sockets[w.socket].rs # "OPEN"
  THEN [ log(w, "MCP bridge is not connected.", "warn") EXCEPT !.ret = FALSE ]
  ELSE LET w1 == publishBridgeMessage(w, "outbound", OutboundFrame(type, actionId),
                                       actionId, FALSE, NoThrow)
       IN IF throws.raised
          THEN [ updateState(log(w1, "Failed to send MCP message: " \o throws.message,
                                 "error"),
                             "error", throws.message)
                 EXCEPT !.ret = FALSE ]
          ELSE [ (IF silent THEN w1 ELSE log(w1, "Sent MCP message", "info"))
                 EXCEPT !.ret = TRUE,
                        !.sockets[w.socket].greeted = @ \/ type = "assistant/hello" ]

\* throws: what JSON.stringify and socket.send did; the text of the exception
\* is logged and becomes the message of the error state
send(w, type, actionId, silent, throws) ==
  IF w.socket = 0 \/ w.sockets[w.socket].rs # "OPEN"
  THEN [ log(w, "MCP bridge is not connected.", "warn") EXCEPT !.ret = FALSE ]
  ELSE IF throws.raised
  THEN [ updateState(log(w, "Failed to send MCP message: " \o throws.message, "error"),
                     "error", throws.message)
         EXCEPT !.ret = FALSE ]
  ELSE LET w1 == publishBridgeMessage(w, "outbound", OutboundFrame(type, actionId),
                                       actionId, FALSE, NoThrow)
           w2 == IF silent THEN w1 ELSE log(w1, "Sent MCP message", "info")
       IN [ w2 EXCEPT !.ret = TRUE,
                      !.sockets[w.socket].greeted = @ \/ type = "assistant/hello" ]

----------------------------------------------------------------------------
\* McpCoordinator

StartsWith(s, prefix) ==
  Len(s) >= Len(prefix) /\ SubSeq(s, 1, Len(prefix)) = prefix

toClientActionId(remoteId) ==
  IF StartsWith(remoteId, "mcp:") THEN remoteId ELSE "mcp:" \o remoteId

RUN_MCP_ACTION == "genRefactorer.assistant.runMcpAction"

\* the descriptor a server advertises for an id; lint is advertised disabled
\* and with an emphasis
Descriptor(id) ==
  [ id |-> id, label |-> "Label of " \o id, description |-> "About " \o id,
    emphasis |-> IF id = "lint" THEN "primary" ELSE UNDEF,
    disabled |-> IF id = "lint" THEN "true" ELSE UNDEF ]

Descriptors == { Descriptor(id) : id \in RemoteIds }

MappedAction(descriptor) ==
  [ id |-> toClientActionId(descriptor.id),
    label |-> descriptor.label,
    description |-> descriptor.description,
    command |-> RUN_MCP_ACTION,
    args |-> descriptor.id,
    emphasis |-> descriptor.emphasis,
    disabled |-> descriptor.disabled,
    source |-> "mcp" ]

LocalLabels ==
  [ id \in LocalIds |->
      CASE id = "refactor-selection" -> "Refactor Selection"
        [] id = "explain-selection" -> "Explain Selection"
        [] id = "selection-actions" -> "Selection Actions"
        [] id = "refresh-context" -> "Refresh Context"
        [] id = "send-context-mcp" -> "Send Context to MCP"
        [] id = "chat-with-mcp" -> "Chat with MCP" ]

LocalCommands ==
  [ id \in LocalIds |->
      CASE id = "refactor-selection" -> "genRefactorer.refactorSelection"
        [] id = "explain-selection" -> "genRefactorer.explainSelection"
        [] id = "selection-actions" -> "genRefactorer.showSelectionActions"
        [] id = "refresh-context" -> "genRefactorer.assistant.refreshContext"
        [] id = "send-context-mcp" -> "genRefactorer.assistant.sendContextToMcp"
        [] id = "chat-with-mcp" -> "genRefactorer.assistant.chatWithMcp" ]

\* an entry of getDefaultAssistantActions(); the description is abbreviated
LocalAction(id) ==
  [ id |-> id,
    label |-> LocalLabels[id],
    description |-> "Description of " \o id,
    command |-> LocalCommands[id],
    args |-> UNDEF,
    emphasis |-> IF id = "refactor-selection" THEN "primary" ELSE UNDEF,
    disabled |-> UNDEF, source |-> UNDEF ]

getDefaultAssistantActions == [ k \in DOMAIN LocalIdList |-> LocalAction(LocalIdList[k]) ]

\* a status that looks at the in-flight count first
updateAssistantStatus_countFirst(w, hasError) ==
  IF Cardinality(w.inflightActions) > 0
  THEN publishStatus(w, "processing", Cardinality(w.inflightActions))
  ELSE IF hasError
  THEN publishStatus(w, "error", 0)
  ELSE publishStatus(w, "idle", 0)

updateAssistantStatus(w, hasError) ==
  IF Cardinality(w.inflightActions) > 0 /\ ~hasError
  THEN publishStatus(w, "processing", Cardinality(w.inflightActions))
  ELSE IF hasError
  THEN publishStatus(w, "error", 0)
  ELSE publishStatus(w, "idle", 0)

completeAction_toggles(w, actionId, status, message) ==
  LET w1 == [ w EXCEPT !.inflightActions = IF actionId \in @ THEN @ \ {actionId}
                                           ELSE @ \cup {actionId},
                       !.completed = Append(@, [ id |-> actionId, status |-> status,
                                                 message |-> message ]) ]
      w2 == updateAssistantStatus(w1, status = "error")
  IN IF message # UNDEF /\ message # ""
     THEN log(w2, message, IF status = "error" THEN "error" ELSE "info")
     ELSE w2

completeAction(w, actionId, status, message) ==
  LET w1 == [ w EXCEPT !.inflightActions = @ \ {actionId},
                       !.completed = Append(@, [ id |-> actionId, status |-> status,
                                                 message |-> message ]) ]
      w2 == updateAssistantStatus(w1, status = "error")
  IN IF message # UNDEF /\ message # ""
     THEN log(w2, message, IF status = "error" THEN "error" ELSE "info")
     ELSE w2

\* an invocation that warns about an unmapped id and sends all the same
invokeRemoteAction_sendsUnknown(w, remoteActionId, throws) ==
  LET w0 == IF remoteActionId \notin DOMAIN w.remoteActions
            THEN Fire(w, Ev("warning", "Unknown MCP action", remoteActionId, 0, ""))
            ELSE w
      w1 == send(w0, "assistant/actionTriggered", remoteActionId, FALSE, throws)
  IN IF ~w1.ret THEN w1
     ELSE updateAssistantStatus(
            [ log(w1, "MCP action requested", "info")
              EXCEPT !.inflightActions = @ \cup {remoteActionId} ],
            FALSE)

invokeRemoteAction(w, remoteActionId, throws) ==
  IF remoteActionId \notin DOMAIN w.remoteActions
  THEN [ Fire(w, Ev("warning", "Unknown MCP action", remoteActionId, 0, ""))
         EXCEPT !.ret = FALSE ]
  ELSE LET w1 == send(w, "assistant/actionTriggered", remoteActionId, FALSE, throws)
       IN IF ~w1.ret THEN w1
          ELSE updateAssistantStatus(
                 [ log(w1, "MCP action requested", "info")
                   EXCEPT !.inflightActions = @ \cup {remoteActionId} ],
                 FALSE)

RECURSIVE mapDescriptors(_, _)
mapDescriptors(remote, actions) ==
  IF actions = << >> THEN remote
  ELSE mapDescriptors(
         With(remote, Head(actions).id,
              [ descriptor |-> Head(actions),
                clientId |-> toClientActionId(Head(actions).id) ]),
         Tail(actions))

\* isArray: Array.isArray(payload.actions); actions: the descriptors
handleRegisterActions(w, isArray, actions) ==
  IF ~isArray
  THEN log(w, "MCP register actions payload missing actions array.", "warn")
  ELSE LET mapped == [ k \in 1 .. Len(actions) |-> MappedAction(actions[k]) ]
           w1 == [ w EXCEPT !.remoteActions = mapDescriptors(<< >>, actions) ]
       IN log(setActionsForSource(w1, "mcp", mapped), "Registered MCP actions", "info")

updateAction(w, id, updates) ==
  IF id \notin DOMAIN w.actionMap THEN w
  ELSE publishActions(
         [ w EXCEPT !.actionMap[id] =
             [ f \in DOMAIN @ |-> IF f \in DOMAIN updates THEN updates[f] ELSE @[f] ] ])

Coalesce(a, b) == IF a # UNDEF THEN a ELSE b

\* payload: [actionId, disabled, label, description, emphasis]; a field the
\* frame lacks is UNDEF
handleActionStateUpdate(w, payload) ==
  IF payload.actionId = UNDEF \/ payload.actionId = "" THEN w
  ELSE IF payload.actionId \notin DOMAIN w.remoteActions THEN w
  ELSE LET mapping == w.remoteActions[payload.actionId]
       IN updateAction(w, mapping.clientId,
                       [ disabled |-> payload.disabled,
                         label |-> Coalesce(payload.label, mapping.descriptor.label),
                         description |-> Coalesce(payload.description,
                                                  mapping.descriptor.description),
                         emphasis |-> Coalesce(payload.emphasis,
                                               mapping.descriptor.emphasis),
                         source |-> "mcp" ])

handleActionComplete(w, payload) ==
  IF payload.actionId = UNDEF \/ payload.actionId = "" THEN w
  ELSE completeAction(w, payload.actionId, Coalesce(payload.status, "success"),
                      payload.message)

\* --- chat

\* The texts whose characters the program inspects are sequences of UTF-16
\* code units.  A string of this module is written as a literal, and a
\* literal holds the printable ASCII characters other than the grave accent
\* (which the lexer refuses, as it does U+2028, U+2029 and the space
\* separators from U+2000 on) and the characters of the escapes \t, \n, \f,
\* \r.  Code is the code unit of such a character, Chars the code units of a
\* string, and Text the string of code units that all have a character.
Printable ==
  " !\"#$%&'()*+,-./0123456789:;<=>?@ABCDEFGHIJKLMNOPQRSTUVWXYZ[\\]^_abcdefghijklmnopqrstuvwxyz{|}~"

\* the code unit of each printable character: 32 to 95 and 97 to 126
PrintableCodes ==
  [ c \in { SubSeq(Printable, j, j) : j \in 1 .. Len(Printable) } |->
      LET k == CHOOSE j \in 1 .. Len(Printable) : SubSeq(Printable, j, j) = c
      IN IF k <= 64 THEN 31 + k ELSE 32 + k ]

Code(c) ==
  CASE c = "\t" -> 9
    [] c = "\n" -> 10
    [] c = "\f" -> 12
    [] c = "\r" -> 13
    [] OTHER -> PrintableCodes[c]

Chr(n) ==
  CASE n = 9 -> "\t"
    [] n = 10 -> "\n"
    [] n = 12 -> "\f"
    [] n = 13 -> "\r"
    [] n \in 32 .. 95 -> SubSeq(Printable, n - 31, n - 31)
    [] n \in 97 .. 126 -> SubSeq(Printable, n - 32, n - 32)

Chars(s) == [ k \in 1 .. Len(s) |-> Code(SubSeq(s, k, k)) ]

RECURSIVE Text(_)
Text(codes) == IF codes = << >> THEN "" ELSE Chr(Head(codes)) \o Text(Tail(codes))

\* the texts of the status bar item, as code units: the second ends with the
\* horizontal ellipsis U+2026
STATUS_IDLE == Chars("GenRefactorer: idle")

STATUS_THINKING == Chars("GenRefactorer: thinking") \o << 8230 >>

STATUS_READY == Chars("GenRefactorer: suggestion ready")

\* the WhiteSpace and LineTerminator code points of ECMAScript, which trim()
\* removes: tab, line feed, vertical tab, form feed, carriage return, space,
\* no-break space, U+1680, U+2000 to U+200A, U+2028, U+2029, U+202F, U+205F,
\* U+3000 and U+FEFF
IsSpace(n) ==
  \/ n \in { 9, 10, 11, 12, 13, 32, 160, 5760, 8232, 8233, 8239, 8287, 12288, 65279 }
  \/ n \in 8192 .. 8202

RECURSIVE Trim(_)
\* String.prototype.trim on the code units of a text: white space is removed
\* from both ends
Trim(codes) ==
  IF codes = << >> THEN << >>
  ELSE IF IsSpace(Head(codes)) THEN Trim(Tail(codes))
  ELSE IF IsSpace(codes[Len(codes)]) THEN Trim(SubSeq(codes, 1, Len(codes) - 1))
  ELSE codes

\* a chat that announces the request before it knows the frame was sent
sendChatMessage_statusFirst(w, message, includeContext, throws) ==
  LET trimmed == Trim(message)
  IN IF trimmed = << >> THEN w
     ELSE LET w1 == send(publishStatus(w, "processing", 0),
                         "assistant/chatMessage", Text(trimmed), FALSE, throws)
          IN IF w1.ret THEN log(w1, "Sent MCP chat message: " \o Text(trimmed), "info")
             ELSE w1

\* message: the code units of the text.  The chat frame carries the trimmed
\* text (the event's arg); the context snapshot that includeContext adds to
\* the payload is not modelled
sendChatMessage(w, message, includeContext, throws) ==
  LET trimmed == Trim(message)
  IN IF trimmed = << >> THEN w
     ELSE LET w1 == send(w, "assistant/chatMessage", Text(trimmed), FALSE, throws)
          IN IF w1.ret
             THEN log(publishStatus(w1, "processing", 0),
                      "Sent MCP chat message: " \o Text(trimmed), "info")
             ELSE w1

\* --- apply-edits

Letters == "ABCDEFGHIJKLMNOPQRSTUVWXYZabcdefghijklmnopqrstuvwxyz"

\* raw.match(/^[A-Za-z]:\\/): a drive letter, a colon and a backslash
IsWindowsPath(raw) ==
  /\ Len(raw) >= 3
  /\ \E k \in 1 .. Len(Letters) : SubSeq(Letters, k, k) = SubSeq(raw, 1, 1)
  /\ SubSeq(raw, 2, 3) = ":\\"

RECURSIVE ToSlashes(_)
\* path.replace(/\\/g, '/'): every backslash becomes a slash
ToSlashes(s) ==
  IF s = "" THEN ""
  ELSE LET c == SubSeq(s, 1, 1)
       IN (IF c = "\\" THEN "/" ELSE c) \o ToSlashes(SubSeq(s, 2, Len(s)))

\* Uri.file.  A URI is written scheme, "://", authority, path, without
\* percent-encoding and with the letters as they were given.  On a Windows
\* host the backslashes of the path become slashes, on another host they are
\* kept; a path that begins with two slashes gives its first segment to the
\* authority; a path without a leading slash gets one.
UriFile(raw, windows) ==
  LET path == IF windows THEN ToSlashes(raw) ELSE raw
  IN IF StartsWith(path, "//")
     THEN IF \E k \in 3 .. Len(path) : SubSeq(path, k, k) = "/"
          THEN "file:" \o path
          ELSE "file:" \o path \o "/"
     ELSE IF StartsWith(path, "/") THEN "file://" \o path
     ELSE "file:///" \o path

\* Uri.parse throws on a URI without an authority whose path begins with two
\* slashes
UriParseThrows(raw) == StartsWith(raw, "file:////")

\* hasWorkspace: vscode.workspace.workspaceFolders has a first folder; ret is
\* the URI, or UNDEF.  An error thrown in the try block is logged.
resolveUri(w, raw, hasWorkspace) ==
  IF raw = "" THEN [ w EXCEPT !.ret = UNDEF ]
  ELSE IF StartsWith(raw, "file:")
  THEN IF UriParseThrows(raw)
       THEN [ log(w, "Failed to resolve MCP URI", "warn") EXCEPT !.ret = UNDEF ]
       ELSE [ w EXCEPT !.ret = raw ]
  ELSE IF StartsWith(raw, "/") \/ IsWindowsPath(raw)
  THEN [ w EXCEPT !.ret = UriFile(raw, w.isWindows) ]
  ELSE IF hasWorkspace THEN [ w EXCEPT !.ret = "file:///workspace/" \o raw ]
  ELSE [ w EXCEPT !.ret = UNDEF ]

\* the inner loop: one replace per text edit of a file entry; an entry without
\* an edits array contributes nothing
replaceAll(batch, uri, textEdits) ==
  IF textEdits = UNDEF THEN batch
  ELSE batch \o [ k \in 1 .. Len(textEdits) |-> [ uri |-> uri, edit |-> textEdits[k] ] ]

RECURSIVE resolveEdits_stopsAtUnresolved(_, _, _, _)
resolveEdits_stopsAtUnresolved(w, fileEdits, hasWorkspace, batch) ==
  IF fileEdits = << >> THEN [ w EXCEPT !.ret = batch ]
  ELSE LET w1 == resolveUri(w, Head(fileEdits).uri, hasWorkspace)
           uri == w1.ret
       IN IF uri = UNDEF
          THEN [ log(w1, "Skipping MCP edit with unresolved URI", "warn")
                   EXCEPT !.ret = batch ]
          ELSE resolveEdits_stopsAtUnresolved(w1, Tail(fileEdits), hasWorkspace,
                            replaceAll(batch, uri, Head(fileEdits).edits))

RECURSIVE resolveEdits(_, _, _, _)
\* the loop over payload.edits: the world after the warnings, with the
\* workspace edit (the replaces, in order) in ret
resolveEdits(w, fileEdits, hasWorkspace, batch) ==
  IF fileEdits = << >> THEN [ w EXCEPT !.ret = batch ]
  ELSE LET w1 == resolveUri(w, Head(fileEdits).uri, hasWorkspace)
           uri == w1.ret
       IN IF uri = UNDEF
          THEN resolveEdits(log(w1, "Skipping MCP edit with unresolved URI", "warn"),
                            Tail(fileEdits), hasWorkspace, batch)
          ELSE resolveEdits(w1, Tail(fileEdits), hasWorkspace,
                            replaceAll(batch, uri, Head(fileEdits).edits))

\* payload: [actionId, description, edits], edits a sequence of file entries
\* [uri, edits]; runs up to the awaited applyEdit, whose continuation keeps
\* the payload and the workspace edit
handleApplyEdits(w, payload, hasWorkspace) ==
  IF Len(payload.edits) = 0
  THEN log(w, "MCP apply edits payload missing edits.", "warn")
  ELSE LET w1 == resolveEdits(w, payload.edits, hasWorkspace, << >>)
       IN [ w1 EXCEPT !.pendingEdits =
                         Append(@, [ payload |-> payload, batch |-> w1.ret ]),
                      !.ret = FALSE ]

RemoveAt(seq, k) == SubSeq(seq, 1, k - 1) \o SubSeq(seq, k + 1, Len(seq))

\* the continuation after the await: applied is the host's answer
editsApplied(w, k, applied) ==
  LET edit == w.pendingEdits[k].payload
      w1 == [ w EXCEPT !.pendingEdits = RemoveAt(@, k) ]
  IN IF applied
     THEN LET w2 == log(w1, Coalesce(edit.description, "Applied MCP-provided edits."),
                        "info")
          IN IF edit.actionId # UNDEF /\ edit.actionId # ""
             THEN completeAction(w2, edit.actionId, "success",
                                 Coalesce(edit.description, "Edits applied."))
             ELSE w2
     ELSE LET w2 == log(w1, "Failed to apply MCP edits.", "error")
          IN IF edit.actionId # UNDEF /\ edit.actionId # ""
             THEN completeAction(w2, edit.actionId, "error", "VS Code rejected the edits.")
             ELSE w2

\* --- task-request

\* McpTaskSequenceEntry: a command and its args; args that are absent are
\* the empty sequence, which is what every reader of them makes of them
\* (entry.args ?? [])
Entry(command, args) == [ command |-> command, args |-> args ]

\* a normalisation that prefers the legacy command
normalizeTaskSequence_legacyFirst(payload) ==
  IF payload.command # UNDEF /\ payload.command # ""
  THEN << Entry(payload.command, payload.args) >>
  ELSE [ k \in DOMAIN payload.sequence |->
           Entry(payload.sequence[k].command, payload.sequence[k].args) ]

\* payload: [actionId, mode, sequence, command, args, cwd]; sequence and the
\* result are sequences of entries
normalizeTaskSequence(payload) ==
  IF Len(payload.sequence) > 0
  THEN [ k \in DOMAIN payload.sequence |->
           Entry(payload.sequence[k].command, payload.sequence[k].args) ]
  ELSE IF payload.command # UNDEF /\ payload.command # ""
  THEN << Entry(payload.command, payload.args) >>
  ELSE << >>

RECURSIVE Join(_, _)
\* Array.prototype.join over strings
Join(parts, sep) ==
  IF parts = << >> THEN ""
  ELSE IF Len(parts) = 1 THEN parts[1]
  ELSE parts[1] \o sep \o Join(Tail(parts), sep)

\* [entry.command, ...(entry.args ?? [])].join(' ').trim()
commandText(entry) == Text(Trim(Chars(Join(<< entry.command >> \o entry.args, " "))))

RECURSIVE sendLines(_, _)
\* the forEach of runTerminalCommands: the line is typed, then logged
sendLines(w, sequence) ==
  IF sequence = << >> THEN w
  ELSE sendLines(log(Fire(w, Ev("sendText", commandText(Head(sequence)), "", 0, "")),
                     "Running MCP task in terminal: " \o commandText(Head(sequence)),
                     "info"),
                 Tail(sequence))

RECURSIVE EscapeQuotes(_)
\* the two replaces of cdCommand on the code units of the path: every grave
\* accent (96) is doubled, then every double quote (34)
EscapeQuotes(codes) ==
  IF codes = << >> THEN << >>
  ELSE (IF Head(codes) \in { 34, 96 } THEN << Head(codes), Head(codes) >>
        ELSE << Head(codes) >>) \o EscapeQuotes(Tail(codes))

\* the path is a string of the payload, so it has the characters a string
\* literal can be written with
cdCommand(path) == "cd \"" \o Text(EscapeQuotes(Chars(path))) \o "\""

\* a terminal run that changes directory after the commands
runTerminalCommands_cdLast(w, sequence, payload) ==
  LET w1 == sendLines(w, sequence)
      w2 == IF payload.cwd # UNDEF /\ payload.cwd # ""
            THEN Fire(w1, Ev("sendText", "cd", cdCommand(payload.cwd), 0, ""))
            ELSE w1
  IN IF payload.actionId # UNDEF /\ payload.actionId # ""
     THEN completeAction(w2, payload.actionId, "success",
                         "Launched " \o ToString(Len(sequence)) \o " terminal command(s).")
     ELSE w2

\* a sendText event is one line typed into the terminal: tag is the command
\* text (or "cd"), id the whole line of a cd command
runTerminalCommands(w, sequence, payload) ==
  LET w1 == IF payload.cwd # UNDEF /\ payload.cwd # ""
            THEN Fire(w, Ev("sendText", "cd", cdCommand(payload.cwd), 0, ""))
            ELSE w
      w2 == sendLines(w1, sequence)
  IN IF payload.actionId # UNDEF /\ payload.actionId # ""
     THEN completeAction(w2, payload.actionId, "success",
                         "Launched " \o ToString(Len(sequence)) \o " terminal command(s).")
     ELSE w2

\* A run of runProcessCommands is a record: the payload's actionId, the
\* sequence, one status per child spawned so far ("running", or the outcome
\* its promise settled with) and the completions the run has issued.

\* thrown is the position of the entry whose spawn raised (0: none), and
\* rejection the message of a rejected promise of spawnProcess that the
\* catch block of runProcessCommands has not taken yet (UNDEF: none).

\* args.length ? ` ${args.join(' ')}` : ''
renderedArgs(args) == IF Len(args) > 0 THEN " " \o Join(args, " ") ELSE ""

\* child_process.spawn raises at once, before a child exists, when the
\* command is the empty string
SpawnThrows(entry) == entry.command = ""

SPAWN_EMPTY_FILE == "The argument 'file' cannot be empty. Received ''"

\* the promise executor: spawn() comes first, so a spawn that raises leaves no
\* child and no log and the promise is rejected with the exception;
\* otherwise the start is logged and the child runs until its close (or
\* error) event
spawnProcess(w, k, entry) ==
  IF SpawnThrows(entry)
  THEN [ w EXCEPT !.procs[k].thrown = Len(w.procs[k].children) + 1,
                  !.procs[k].rejection = SPAWN_EMPTY_FILE ]
  ELSE log([ w EXCEPT !.procs[k].children = Append(@, "running") ],
           "Running MCP task (process): " \o entry.command \o renderedArgs(entry.args),
           "info")

RECURSIVE SplitLines(_, _)
\* text.split(/\r?\n/): line is the part of the current line read so far
SplitLines(text, line) ==
  IF text = "" THEN << line >>
  ELSE IF StartsWith(text, "\r\n")
  THEN << line >> \o SplitLines(SubSeq(text, 3, Len(text)), "")
  ELSE IF StartsWith(text, "\n")
  THEN << line >> \o SplitLines(SubSeq(text, 2, Len(text)), "")
  ELSE SplitLines(SubSeq(text, 2, Len(text)), line \o SubSeq(text, 1, 1))

RECURSIVE logLines(_, _, _, _)
logLines(w, command, lines, stream) ==
  IF lines = << >> THEN w
  ELSE logLines(log(w, "[" \o command \o " " \o stream \o "] " \o Head(lines),
                    IF stream = "stderr" THEN "warn" ELSE "info"),
                command, Tail(lines), stream)

\* the data listeners spawnProcess attaches to the child's stdout and stderr:
\* one log entry per line of the chunk that is not blank
logProcessOutput(w, command, chunk, stream) ==
  LET trimmed == [ k \in DOMAIN SplitLines(chunk, "") |->
                     Text(Trim(Chars(SplitLines(chunk, "")[k]))) ]
  IN logLines(w, command, SelectSeq(trimmed, LAMBDA line : line # ""), stream)

\* runProcessCommands up to its first await: the first child is spawned in
\* the handler itself; when that spawn raises, the catch block runs after
\* the listener that called the handler has returned (runMicrotasks)
runProcessCommands(w, sequence, payload) ==
  LET k == Len(w.procs) + 1
      w1 == [ w EXCEPT !.procs = Append(@, [ actionId |-> payload.actionId,
                                             cmds |-> sequence,
                                             children |-> << >>,
                                             completions |-> << >>,
                                             thrown |-> 0,
                                             rejection |-> UNDEF ]) ]
  IN spawnProcess(w1, k, sequence[1])

\* the rejection of spawnProcess: the child's error event, or its close
\* event with a nonzero code
FailureMessage(command, outcome) ==
  IF outcome = "spawn-error" THEN "spawn " \o command \o " ENOENT"
  ELSE command \o " exited with code 1"

\* a run that reports only its success
finishProcess_onlySuccess(w, k, status, message) ==
  LET actionId == w.procs[k].actionId
  IN IF actionId # UNDEF /\ actionId # "" /\ status = "success"
     THEN completeAction(
            [ w EXCEPT !.procs[k].completions =
                          Append(@, [ status |-> status, message |-> message ]) ],
            actionId, status, message)
     ELSE w

finishProcess(w, k, status, message) ==
  LET actionId == w.procs[k].actionId
  IN IF actionId # UNDEF /\ actionId # ""
     THEN completeAction(
            [ w EXCEPT !.procs[k].completions =
                          Append(@, [ status |-> status, message |-> message ]) ],
            actionId, status, message)
     ELSE w

\* the catch block of runProcessCommands, entered with the message of the
\* rejection
processFailed(w, k, message) ==
  finishProcess(log([ w EXCEPT !.procs[k].rejection = UNDEF ],
                    "MCP task failed: " \o message, "error"),
                k, "error", message)

\* the await of the promise spawnProcess returned: a promise that the
\* executor left rejected takes the loop to the catch block
awaitSpawn(w, k) ==
  IF w.procs[k].rejection # UNDEF THEN processFailed(w, k, w.procs[k].rejection) ELSE w

RECURSIVE awaitSpawns(_, _)
awaitSpawns(w, k) == IF k = 0 THEN w ELSE awaitSpawn(awaitSpawns(w, k - 1), k)

\* the microtasks that run when a listener of the socket has returned: the
\* continuation of a runProcessCommands call whose first spawn raised
runMicrotasks(w) == awaitSpawns(w, Len(w.procs))

\* a loop that goes on to the next entry whatever the outcome
processSettled_continues(w, k, j, outcome) ==
  LET p == w.procs[k]
      w1 == [ w EXCEPT !.procs[k].children[j] = outcome ]
  IN IF j < Len(p.cmds)
     THEN awaitSpawn(spawnProcess(w1, k, p.cmds[j + 1]), k)
     ELSE IF outcome = "exit-0"
     THEN finishProcess(w1, k, "success",
                        "Completed " \o ToString(Len(p.cmds)) \o " command(s).")
     ELSE processFailed(w1, k, FailureMessage(p.cmds[j].command, outcome))

\* a run that is cancelled when the coordinator is disposed
processSettled_stopsAfterDispose(w, k, j, outcome) ==
  LET p == w.procs[k]
      w1 == [ w EXCEPT !.procs[k].children[j] = outcome ]
  IN IF w.coordDisposed THEN w1
     ELSE IF outcome = "exit-0"
     THEN IF j < Len(p.cmds)
          THEN awaitSpawn(spawnProcess(w1, k, p.cmds[j + 1]), k)
          ELSE finishProcess(w1, k, "success",
                             "Completed " \o ToString(Len(p.cmds)) \o " command(s).")
     ELSE processFailed(w1, k, FailureMessage(p.cmds[j].command, outcome))

\* the promise of child j settles and the for-loop that awaits it goes on:
\* outcome is "exit-0", "exit-1" (a nonzero code) or "spawn-error".  The
\* next entry is spawned in the same turn, and a spawn that raises is caught
\* in it.
processSettled(w, k, j, outcome) ==
  LET p == w.procs[k]
      w1 == [ w EXCEPT !.procs[k].children[j] = outcome ]
  IN IF outcome = "exit-0"
     THEN IF j < Len(p.cmds)
          THEN awaitSpawn(spawnProcess(w1, k, p.cmds[j + 1]), k)
          ELSE finishProcess(w1, k, "success",
                             "Completed " \o ToString(Len(p.cmds)) \o " command(s).")
     ELSE processFailed(w1, k, FailureMessage(p.cmds[j].command, outcome))

\* a frame that carries no payload
NoPayload == [ absent |-> TRUE ]

IsAbsent(payload) == "absent" \in DOMAIN payload

handleTaskRequest(w, payload) ==
  IF IsAbsent(payload)
  THEN log(w, "Received empty MCP task payload.", "warn")
  ELSE LET mode == Coalesce(payload.mode, "terminal")
           sequence == normalizeTaskSequence(payload)
       IN IF Len(sequence) = 0
          THEN log(w, "MCP task request missing command(s).", "warn")
          ELSE IF mode = "process"
          THEN runProcessCommands(w, sequence, payload)
          ELSE runTerminalCommands(w, sequence, payload)

\* --- context-request, log, chat-response

\* the snapshot is sent on demand; the log line is written whether or not
\* the frame went out (throws: what the send of the snapshot did)
handleContextRequest(w, throws) ==
  log(send(w, "context.snapshot", "", FALSE, throws),
      "Sent context snapshot to MCP server (on demand).", "info")

\* payload: [message, level]
handleLog(w, payload) ==
  IF payload.message = UNDEF \/ payload.message = "" THEN w
  ELSE log(w, payload.message, Coalesce(payload.level, "info"))

\* a chat response that leaves the status to the in-flight count
handleChatResponse_countsInFlight(w, payload) ==
  IF payload.message = UNDEF \/ payload.message = "" THEN w
  ELSE LET prefix == IF payload.role = "assistant" THEN "Gemini" ELSE "MCP"
       IN updateAssistantStatus(log(w, prefix \o ": " \o payload.message, "info"), FALSE)

\* payload: [message, role]
handleChatResponse(w, payload) ==
  IF payload.message = UNDEF \/ payload.message = "" THEN w
  ELSE LET prefix == IF payload.role = "assistant" THEN "Gemini" ELSE "MCP"
       IN publishStatus(log(w, prefix \o ": " \o payload.message, "info"), "idle", 0)

\* --- dispatch

\* a switch without a default case
dispatch_dropsUnknown(w, frame, hasWorkspace, throws) ==
  CASE frame.type = "assistant/registerActions" ->
         handleRegisterActions(w, frame.payload.isArray, frame.payload.actions)
    [] frame.type = "assistant/contextRequest" -> handleContextRequest(w, throws)
    [] frame.type = "assistant/actionStateUpdate" ->
         handleActionStateUpdate(w, frame.payload)
    [] frame.type = "assistant/applyEdits" ->
         handleApplyEdits(w, frame.payload, hasWorkspace)
    [] frame.type = "assistant/taskRequest" ->
         handleTaskRequest(w, frame.payload)
    [] frame.type = "assistant/log" -> handleLog(w, frame.payload)
    [] frame.type = "assistant/chatResponse" -> handleChatResponse(w, frame.payload)
    [] frame.type = "assistant/actionComplete" ->
         handleActionComplete(w, frame.payload)
    [] OTHER -> w

\* the switch of handleBridgeMessage over the type of an inbound frame
dispatch(w, frame, hasWorkspace, throws) ==
  CASE frame.type = "assistant/registerActions" ->
         handleRegisterActions(w, frame.payload.isArray, frame.payload.actions)
    [] frame.type = "assistant/contextRequest" -> handleContextRequest(w, throws)
    [] frame.type = "assistant/actionStateUpdate" ->
         handleActionStateUpdate(w, frame.payload)
    [] frame.type = "assistant/applyEdits" ->
         handleApplyEdits(w, frame.payload, hasWorkspace)
    [] frame.type = "assistant/taskRequest" ->
         handleTaskRequest(w, frame.payload)
    [] frame.type = "assistant/log" -> handleLog(w, frame.payload)
    [] frame.type = "assistant/chatResponse" -> handleChatResponse(w, frame.payload)
    [] frame.type = "assistant/actionComplete" ->
         handleActionComplete(w, frame.payload)
    [] OTHER -> log(w, "Unhandled MCP message type: " \o frame.type, "warn")

\* a coordinator that dispatches the frames of both directions
handleBridgeMessage_anyDirection(w, direction, frame, hasWorkspace, throws) ==
  IF w.coordDisposed THEN w ELSE dispatch(w, frame, hasWorkspace, throws)

\* frame: [type, payload]; the coordinator listens while it is not disposed.
\* hasWorkspace: whether the host has a workspace folder (read by resolveUri);
\* throws: what the send that the handler makes did (handleContextRequest)
handleBridgeMessage(w, direction, frame, hasWorkspace, throws) ==
  IF w.coordDisposed \/ direction # "inbound" THEN w
  ELSE dispatch(w, frame, hasWorkspace, throws)

\* McpBridge.handleMessage for a frame that parses
handleMessage(w, frame, hasWorkspace, throws) ==
  log(publishBridgeMessage(w, "inbound", frame, "", hasWorkspace, throws),
      "MCP message received", "info")

\* a bridge that treats a frame it cannot parse as a transport error
handleRawMessage_failsOnGarbage(w, parses, frame, hasWorkspace, throws) ==
  IF ~parses THEN handleError(w, "Unexpected token")
  ELSE handleMessage(w, frame, hasWorkspace, throws)

\* McpBridge.handleMessage from the raw data: parses is whether JSON.parse
\* accepts the data, frame is its result
handleRawMessage(w, parses, frame, hasWorkspace, throws) ==
  IF ~parses THEN log(w, "Received non-JSON MCP payload", "warn")
  ELSE handleMessage(w, frame, hasWorkspace, throws)

coordinatorDispose(w) ==
  [ w EXCEPT !.coordDisposed = TRUE, !.remoteActions = << >>, !.inflightActions = {} ]

\* the socket event handlers connect() attaches

onOpen(w, throws) ==
  LET w1 == [ w EXCEPT !.retryCount = 0 ]
      w2 == log(updateState(w1, "ready", "Connected to " \o w1.config.endpoint),
                "MCP bridge connected.", "info")
  IN send(w2, "assistant/hello", "", TRUE, throws)

onClose(w) ==
  scheduleReconnect(
    updateState(log(w, "MCP bridge closed", "warn"),
                "disconnected", "Connection closed. Reconnecting..."))

\* the socket emits an event: the listeners connect() attached run unless
\* removeAllListeners() has detached them
emit(w, i, event, frame) ==
  IF ~w.sockets[i].attached THEN w
  ELSE CASE event = "open" -> onOpen(w, NoThrow)
         [] event = "message" -> handleRawMessage(w, TRUE, frame, FALSE, NoThrow)
         [] event = "error" -> handleError(w, "socket error")
         [] event = "close" -> onClose(w)

----------------------------------------------------------------------------
\* Initial states

\* the objects of activate() as their constructors leave them.  The
\* coordinator is constructed last: until then it has no listener on the bus,
\* which is what coordDisposed stands for here.
Constructed ==
  [ config |-> DEFAULT_CONFIG, socket |-> 0, reconnectTimer |-> UNDEF,
    state |-> "disconnected", lastMessage |-> UNDEF, disposed |-> FALSE,
    retryCount |-> 0,
    sockets |-> [ i \in SocketIds |->
                    [ rs |-> "CLOSED", attached |-> FALSE, greeted |-> FALSE ] ],
    reconnectDelay |-> 0, timers |-> 0, isWindows |-> FALSE,
    remoteActions |-> << >>, inflightActions |-> {}, coordDisposed |-> TRUE,
    actionMap |-> << >>, actionSources |-> << >>, sourceIndex |-> << >>,
    orchDisposed |-> FALSE,
    pendingEdits |-> << >>, procs |-> << >>,
    logSequence |-> 0, busDisposed |-> FALSE, issued |-> << >>, delivered |-> << >>,
    logEntries |-> << >>, view |-> FALSE, panelDisposed |-> FALSE,
    contextSnapshot |-> FALSE,
    emitted |-> << >>, posted |-> << >>,
    ret |-> FALSE, completed |-> << >>, overflow |-> FALSE ]

\* activate() under the settings applyMcpConfiguration() reads: the default
\* actions are set, the status is published, the bridge is configured, the
\* snapshot of the context manager is published, and then the coordinator
\* subscribes.  What activate() publishes is not kept in emitted, which lists
\* the publish calls of a step.
activate(settings) ==
  LET w1 == setActionsForSource(Constructed, "local", getDefaultAssistantActions)
      w2 == publishStatus(w1, "idle", 0)
      w3 == applyConfiguration(w2, settings)
      w4 == publishContext(w3)
  IN [ w4 EXCEPT !.coordDisposed = FALSE, !.emitted = << >> ]

\* the settings of an installation that has not touched them
InitWorld == activate(DEFAULT_CONFIG)

\* the bridge enabled with an endpoint and its socket open: the world after
\* applyConfiguration({enabled, endpoint}) and the socket's open event
ReadyWorld ==
  LET w1 == applyConfiguration(InitWorld, [ enabled |-> TRUE, endpoint |-> "ws://host" ])
      w2 == [ w1 EXCEPT !.emitted = << >>, !.sockets[w1.socket].rs = "OPEN" ]
  IN onOpen(w2, NoThrow)

\* the controller after the constructor has created the status bar item and
\* registered its listeners, before it scans the active editor
NewController ==
  [ timers |-> {}, suggestions |-> << >>, activeRequest |-> 0,
    statusText |-> STATUS_IDLE, previews |-> << >>, requests |-> {},
    disposed |-> FALSE, notified |-> << >>, output |-> << >> ]

\* the state in which the world is w and the auto-refactor controller is c
StartWith(w, op, c) ==
  /\ config = w.config
  /\ socket = w.socket
  /\ reconnectTimer = w.reconnectTimer
  /\ state = w.state
  /\ lastMessage = w.lastMessage
  /\ disposed = w.disposed
  /\ retryCount = w.retryCount
  /\ sockets = w.sockets
  /\ reconnectDelay = w.reconnectDelay
  /\ timers = w.timers
  /\ isWindows = w.isWindows
  /\ remoteActions = w.remoteActions
  /\ inflightActions = w.inflightActions
  /\ coordDisposed = w.coordDisposed
  /\ actionMap = w.actionMap
  /\ actionSources = w.actionSources
  /\ sourceIndex = w.sourceIndex
  /\ orchDisposed = w.orchDisposed
  /\ pendingEdits = w.pendingEdits
  /\ procs = w.procs
  /\ emitted = w.emitted
  /\ last = [ op |-> op, input |-> "", ret |-> w.ret, completed |-> w.completed ]
  /\ logSequence = w.logSequence
  /\ busDisposed = w.busDisposed
  /\ issued = w.issued
  /\ delivered = w.delivered
  /\ logEntries = w.logEntries
  /\ view = w.view
  /\ panelDisposed = w.panelDisposed
  /\ contextSnapshot = w.contextSnapshot
  /\ posted = w.posted
  /\ debounceTimers = c.timers
  /\ suggestions = c.suggestions
  /\ activeRequest = c.activeRequest
  /\ statusText = c.statusText
  /\ previews = c.previews
  /\ docVersion = [ key \in Docs |-> 1 ]
  /\ requests = c.requests
  /\ autoDisposed = c.disposed

\* activation without an active editor: the constructor's scan returns at once
Start(w, op) == StartWith(w, op, NewController)

Init == Start(InitWorld, "activate")

InitReady == Start(ReadyWorld, "open")

\* a handler logs while the sequence stays within n
Within(n, w) == w.logSequence <= n \/ w.logSequence = logSequence

\* the bounds of the model, on the world a handler leaves
Bounded(w) ==
  /\ ~w.overflow
  /\ w.retryCount <= MaxRetry
  /\ Len(w.procs) <= MaxProcs
  /\ Len(w.pendingEdits) <= MaxPendingEdits

InBounds(w) == Bounded(w) /\ Within(MaxHandlerLogs, w)

\* one step: the handler's result, computed once, becomes the next state
Do(w, op, input) == \E x \in { w } : InBounds(x) /\ Commit(x, op, input)

SeqsUpTo(S, n) == UNION { [ 1 .. k -> S ] : k \in 0 .. n }

----------------------------------------------------------------------------
\* The bridge: commands, socket events and the reconnect timer

\* input: the new configuration and the one it replaces
ApplyConfiguration(partial) ==
  Do(applyConfiguration(World, partial), "applyConfiguration",
     [ config |-> partial, previous |-> config ])

Dispose ==
  /\ ~disposed
  /\ Do(closeSocket(clearReconnect([ World EXCEPT !.disposed = TRUE ])), "dispose", "")

\* the armed timer fires; the field keeps the handle of the fired timer.
\* The retries of the timer may log further than the other handlers, so that
\* a long run of failures fits the model.
TimerFire ==
  /\ reconnectTimer = "pending"
  /\ \E x \in { connect([ World EXCEPT !.reconnectTimer = "fired", !.timers = @ - 1 ]) } :
       Bounded(x) /\ Within(MaxTimerLogs, x) /\ Commit(x, "timer", "")

SocketOpen(i, throws) ==
  /\ sockets[i].rs = "CONNECTING"
  /\ sockets[i].attached
  /\ Do(onOpen([ World EXCEPT !.sockets[i].rs = "OPEN" ], throws), "open",
        throws)

\* the socket reports an error; its close event follows
SocketError(i) ==
  /\ sockets[i].rs \in { "CONNECTING", "OPEN" }
  /\ sockets[i].attached
  /\ Do(handleError([ World EXCEPT !.sockets[i].rs = "CLOSING" ], "socket error"),
        "error", "")

\* the close event of a socket; a terminated socket has no listener left
SocketClose(i) ==
  /\ sockets[i].rs # "CLOSED"
  /\ LET w == [ World EXCEPT !.sockets[i].rs = "CLOSED", !.sockets[i].greeted = FALSE ]
     IN Do(IF sockets[i].attached THEN onClose(w) ELSE w, "close",
           IF sockets[i].attached THEN "attached" ELSE "terminated")

\* a frame that is not JSON
SocketGarbage(i) ==
  /\ sockets[i].rs = "OPEN"
  /\ sockets[i].attached
  /\ Do(handleRawMessage(World, FALSE, UNDEF, FALSE, NoThrow), "message", "")

\* the command sendContextToMcp: a direct call of McpBridge.send
sendContextToMcp(w, throws) ==
  LET w1 == send(w, "context.snapshot", "", FALSE, throws)
  IN IF w1.ret
     THEN log(w1, "Sent workspace context snapshot to MCP bridge.", "info")
     ELSE w1

\* input: what the send did, and the state and message it found
SendContext(throws) ==
  Do(sendContextToMcp(World, throws), "send",
     [ raised |-> throws.raised, message |-> throws.message,
       previous |-> [ state |-> state, lastMessage |-> lastMessage ] ])

\* the texts a user sends, by their code units: empty, of white space alone
\* (blanks, a tab and a line feed, a form feed, a vertical tab, a line
\* separator, an ideographic space before a no-break space), hi between
\* white space of several kinds, and hi as it is
ChatMessages ==
  { << >>, << 32, 32 >>, << 9, 10 >>, << 12 >>, << 11 >>, << 8232 >>, << 12288, 160 >>,
    << 32, 104, 105, 32 >>, << 12, 104, 105, 12 >>, << 160, 104, 105, 65279 >>,
    << 8233, 8195, 104, 32, 105, 5760, 11 >>, << 104, 105 >> }

SendChatMessage(message, includeContext, throws) ==
  /\ Do(sendChatMessage(World, message, includeContext, throws), "sendChatMessage",
        [ message |-> message, includeContext |-> includeContext, throws |-> throws ])

----------------------------------------------------------------------------
\* The bus and the panel: callers of bus.log other than the handlers above,
\* the disposal of the bus, and the webview

\* what resolveWebviewView posts: the context snapshot if the panel holds
\* one, then the rest of the panel's state; payloads other than log entries
\* are not modelled
replay(hasSnapshot, entries) ==
  (IF hasSnapshot THEN << Post("assistant.context", UNDEF) >> ELSE << >>)
  \o << Post("assistant.status", UNDEF), Post("assistant.actions", UNDEF) >>
  \o [ k \in 1 .. Len(entries) |-> Post("assistant.log", entries[k]) ]
  \o << Post("assistant.bridge", UNDEF), Post("assistant.chat.replace", UNDEF) >>

\* AssistantPanelProvider.resolveWebviewView: the view is kept and the
\* panel's state is replayed
resolveWebviewView(w) ==
  [ w EXCEPT !.view = TRUE, !.posted = @ \o replay(w.contextSnapshot, w.logEntries) ]

\* AssistantPanelProvider.dispose: the panel's subscriptions are disposed;
\* the view and the history stay as they are
panelDispose(w) == [ w EXCEPT !.panelDisposed = TRUE ]

\* AssistantEventBus.dispose
busDispose(w) == [ w EXCEPT !.busDisposed = TRUE ]

\* the entries a caller of publishLog supplies: the id is the caller's
PublishedEntries == { [ id |-> "log-7", message |-> "note", level |-> "info" ] }

LogMessages == { "note" }

LogLevels == { "info" }

\* a call of bus.log; ret is the entry it returns
BusLog(message, level) ==
  /\ logSequence < MaxLogCalls
  /\ Commit([ log(World, message, level) EXCEPT
               !.ret = busLog([ logSequence |-> logSequence, disposed |-> busDisposed ],
                              message, level).entry ],
            "log", message)

\* a call of bus.publishLog by a caller that built the entry itself, made
\* while fewer than MaxPublishedAt entries have been delivered
PublishLog(entry) ==
  /\ Len(delivered) < MaxPublishedAt
  /\ Commit(publishLog(World, entry), "publishLog", entry)

\* the context manager announces a new snapshot
PublishContext == Do(publishContext(World), "publishContext", "")

BusDispose ==
  /\ ~busDisposed
  /\ Do(busDispose(World), "busDispose", "")

PanelDispose ==
  /\ ~panelDisposed
  /\ Do(panelDispose(World), "panelDispose", "")

ResolveWebviewView == Do(resolveWebviewView(World), "resolveWebviewView", "")

\* the bus under its direct callers and under a handler that logs: the
\* bridge is configured with an endpoint that is no URL
NextLog ==
  \/ \E message \in LogMessages, level \in LogLevels :
       /\ logSequence < MaxHandlerLogs
       /\ BusLog(message, level)
  \/ \E entry \in PublishedEntries : PublishLog(entry)
  \/ PublishContext
  \/ BusDispose
  \/ PanelDispose
  \/ ResolveWebviewView
  \/ ApplyConfiguration([ enabled |-> TRUE, endpoint |-> "not-a-url" ])

SpecLog == Init /\ [][NextLog]_vars

\* the panel under more log events than its history holds
NextPanel ==
  \/ \E message \in LogMessages, level \in LogLevels : BusLog(message, level)
  \/ \E entry \in PublishedEntries : PublishLog(entry)
  \/ PublishContext
  \/ PanelDispose
  \/ ResolveWebviewView

SpecPanel == Init /\ [][NextPanel]_vars

SocketEvents == { "open", "message", "error", "close" }

\* an event of a socket that restart() or dispose() has terminated: one that
\* was queued when terminate() ran, or the close event that follows it
TerminatedSocketEvent(i, event) ==
  /\ i # socket
  /\ sockets[i].rs = "CLOSING"
  /\ LET frame == [ type |-> "assistant/actionComplete",
                    payload |-> [ actionId |-> "fmt", status |-> UNDEF,
                                  message |-> UNDEF ] ]
         w == IF event = "close"
              THEN [ World EXCEPT !.sockets[i].rs = "CLOSED" ]
              ELSE World
     IN Do(emit(w, i, event, frame), "terminated", [ socket |-> i, event |-> event ])

----------------------------------------------------------------------------
\* Inbound frames

\* the message listener of the socket runs, and the microtasks after it
Recv(i, frame, hasWorkspace) ==
  /\ sockets[i].rs = "OPEN"
  /\ sockets[i].attached
  /\ Do(runMicrotasks(handleMessage(World, frame, hasWorkspace, NoThrow)),
        frame.type, frame.payload)

RegisterPayloads(ids, n) ==
  { [ isArray |-> FALSE, actions |-> << >> ] }
    \cup { [ isArray |-> TRUE, actions |-> L ] :
             L \in SeqsUpTo({ Descriptor(id) : id \in ids }, n) }

RecvRegisterActions(i, payload) ==
  Recv(i, [ type |-> "assistant/registerActions", payload |-> payload ], FALSE)

StateUpdatePayloads ==
  [ actionId : { "fmt", "lint", "zz" }, disabled : { UNDEF, "true" },
    label : { UNDEF, "Renamed" }, description : { UNDEF, "Described" },
    emphasis : { UNDEF, "default" } ]

RecvActionStateUpdate(i, payload) ==
  Recv(i, [ type |-> "assistant/actionStateUpdate", payload |-> payload ], FALSE)

CompletePayloads(ids) ==
  [ actionId : ids, status : { UNDEF, "success", "error" }, message : { UNDEF, "done" } ]

RecvActionComplete(i, payload) ==
  Recv(i, [ type |-> "assistant/actionComplete", payload |-> payload ], FALSE)

\* the same action-complete frame delivered twice in a row
RecvActionCompleteTwice(i, payload) ==
  /\ sockets[i].rs = "OPEN"
  /\ sockets[i].attached
  /\ LET frame == [ type |-> "assistant/actionComplete", payload |-> payload ]
     IN Do(handleMessage(handleMessage(World, frame, FALSE, NoThrow), frame, FALSE, NoThrow),
           "assistant/actionComplete twice", payload)

FileEdit(uri, textEdits) == [ uri |-> uri, edits |-> textEdits ]

EditPayloads ==
  [ actionId : { "", "fmt" }, description : { UNDEF },
    edits : { << >>,
              << FileEdit("/abs/a.ts", << "e1", "e2" >>), FileEdit("/abs/d.ts", UNDEF) >>,
              << FileEdit("rel/b.ts", << "e1" >>), FileEdit("", << "e2" >>) >>,
              << FileEdit("", << "e1" >>), FileEdit("file:///c.ts", << "e3" >>) >>,
              << FileEdit("C:\\x\\a.ts", << "e1" >>) >>,
              << FileEdit("//srv/a.ts", << "e1" >>), FileEdit("/x\\b.ts", << "e2" >>) >>,
              << FileEdit("file:////c.ts", << "e1" >>), FileEdit("/abs/a.ts", << "e2" >>) >> } ]

RecvApplyEdits(i, payload, hasWorkspace) ==
  /\ sockets[i].rs = "OPEN"
  /\ sockets[i].attached
  /\ Do(handleMessage(World, [ type |-> "assistant/applyEdits", payload |-> payload ],
                      hasWorkspace, NoThrow),
        "assistant/applyEdits", [ payload |-> payload, hasWorkspace |-> hasWorkspace ])

\* entries without args
StepNames == [ k \in 1 .. MaxSeqLen |-> Entry("step" \o ToString(k), << >>) ]

TaskPayloads(modes) ==
  [ actionId : { "", "fmt" }, mode : modes,
    sequence : { SubSeq(StepNames, 1, n) : n \in 0 .. MaxSeqLen },
    command : { UNDEF, "legacy" }, args : { << >> }, cwd : { UNDEF, "/w" } ]

\* sequences with an entry that spawn() refuses: the first, or the second
UnspawnableSequences ==
  { << Entry("", << >>), Entry("step2", << >>) >>,
    << Entry("step1", << >>), Entry("", << "-v" >>) >> }

\* two entries whose text is not their command: a command in blanks, and a
\* command with args
ArgSequence == << Entry(" step1 ", << >>), Entry("step2", << "-v", "x" >>) >>

RecvTaskRequest(i, payload) ==
  Recv(i, [ type |-> "assistant/taskRequest", payload |-> payload ], FALSE)

----------------------------------------------------------------------------
\* The coordinator: commands and awaited results

\* the command runMcpAction: an argument that is missing or empty is
\* refused before the coordinator is asked.  The command is registered after
\* the coordinator is constructed, so its second guard never fires.
runMcpAction(w, remoteActionId, throws) ==
  IF remoteActionId = UNDEF \/ remoteActionId = ""
  THEN [ Fire(w, Ev("warning", "MCP action identifier was not provided.", "", 0, ""))
         EXCEPT !.ret = FALSE ]
  ELSE invokeRemoteAction(w, remoteActionId, throws)

\* the command stays registered when the coordinator is disposed; op is the
\* call the step reached: the command alone when it refuses its argument, the
\* coordinator's method otherwise
InvokeRemoteAction(remoteActionId, throws) ==
  Do(runMcpAction(World, remoteActionId, throws),
        IF remoteActionId = UNDEF \/ remoteActionId = "" THEN "runMcpAction"
        ELSE "invokeRemoteAction",
        remoteActionId)

\* a chunk of output of a child that has not closed
ProcessOutput(k, j, stream, chunk) ==
  /\ k \in 1 .. Len(procs)
  /\ j \in 1 .. Len(procs[k].children)
  /\ procs[k].children[j] = "running"
  /\ Do(logProcessOutput(World, procs[k].cmds[j].command, chunk, stream), "processOutput",
        [ run |-> k, child |-> j, stream |-> stream, chunk |-> chunk ])

EditsApplied(k, applied) ==
  /\ k \in 1 .. Len(pendingEdits)
  /\ Do(editsApplied(World, k, applied), "editsApplied",
        [ edit |-> pendingEdits[k], applied |-> applied ])

ProcessSettled(k, j, outcome) ==
  /\ k \in 1 .. Len(procs)
  /\ j \in 1 .. Len(procs[k].children)
  /\ procs[k].children[j] = "running"
  /\ Do(processSettled(World, k, j, outcome), "processSettled",
        [ run |-> k, child |-> j, outcome |-> outcome ])

CoordinatorDispose ==
  /\ ~coordDisposed
  /\ Do(coordinatorDispose(World), "coordinatorDispose", "")

----------------------------------------------------------------------------
\* Specifications

Outcomes == { "exit-0", "exit-1", "spawn-error" }

\* what a send does: it goes through, or JSON.stringify or socket.send raises
Exceptions ==
  { NoThrow, Thrown("Converting circular structure to JSON"),
    Thrown("WebSocket is not open") }

\* the bridge alone: configuration changes, socket events, the timer, sends
NextBridge ==
  \/ \E partial \in Configurations : ApplyConfiguration(partial)
  \/ Dispose
  \/ TimerFire
  \/ \E i \in SocketIds, throws \in Exceptions : SocketOpen(i, throws)
  \/ \E i \in SocketIds : SocketError(i)
  \/ \E i \in SocketIds : SocketClose(i)
  \/ \E i \in SocketIds : SocketGarbage(i)
  \/ \E throws \in Exceptions : SendContext(throws)

SpecBridge == Init /\ [][NextBridge]_vars

\* the reconnect loop: the bridge without sends and inbound frames
NextReconnect ==
  \/ \E partial \in Configurations : ApplyConfiguration(partial)
  \/ Dispose
  \/ TimerFire
  \/ \E i \in SocketIds : SocketOpen(i, NoThrow)
  \/ \E i \in SocketIds : SocketError(i)
  \/ \E i \in SocketIds : SocketClose(i)

\* an armed timer fires, and a socket that is closing emits its close event
SpecReconnectFair ==
  /\ Init /\ [][NextReconnect]_vars
  /\ WF_vars(TimerFire)
  /\ WF_vars(\E i \in SocketIds : SocketClose(i))

\* the bridge with a server that advertises actions
NextRemote ==
  \/ \E partial \in Configurations : ApplyConfiguration(partial)
  \/ TimerFire
  \/ \E i \in SocketIds, throws \in Exceptions : SocketOpen(i, throws)
  \/ \E i \in SocketIds : SocketError(i)
  \/ \E i \in SocketIds : SocketClose(i)
  \/ \E i \in SocketIds, payload \in RegisterPayloads(RemoteIds, MaxActions) :
       RecvRegisterActions(i, payload)

SpecRemote == Init /\ [][NextRemote]_vars

\* the coordinator on a ready bridge: frames of a server that advertises
\* fmt and lint, invocations, and the work the frames start (one
\* process-mode run; SpecTasks has the concurrent runs)
CoordIds == { "fmt", "lint" }

CoordTaskPayloads ==
  { p \in TaskPayloads({ UNDEF, "process" }) :
      p.actionId = "fmt" /\ p.command = UNDEF /\ p.cwd = UNDEF /\ Len(p.sequence) = 1 }

CoordStateUpdates ==
  { p \in StateUpdatePayloads :
      p.actionId = "fmt" /\ p.label = UNDEF /\ p.description = UNDEF /\ p.emphasis = UNDEF }

\* apply-edits frames for fmt; SpecEdits has the paths of network shares
CoordEditPayloads ==
  { p \in EditPayloads :
      /\ p.actionId = "fmt"
      /\ \A k \in DOMAIN p.edits : ~StartsWith(p.edits[k].uri, "//") }

\* register-actions frames that name no id twice
CoordRegisterPayloads ==
  { p \in RegisterPayloads(CoordIds, MaxActions) :
      \A j, k \in DOMAIN p.actions : p.actions[j].id = p.actions[k].id => j = k }

\* action-complete frames without a message
CoordCompletePayloads ==
  { p \in CompletePayloads(CoordIds \cup { "" }) : p.message = UNDEF }

NextCoord ==
  \/ \E i \in SocketIds : SocketClose(i)
  \/ \E i \in SocketIds, payload \in CoordRegisterPayloads :
       RecvRegisterActions(i, payload)
  \/ \E i \in SocketIds, payload \in CoordStateUpdates :
       RecvActionStateUpdate(i, payload)
  \/ \E i \in SocketIds, payload \in CoordCompletePayloads :
       RecvActionComplete(i, payload)
  \/ \E id \in CoordIds \cup { "zz" },
        throws \in { NoThrow, Thrown("WebSocket is not open") } :
       InvokeRemoteAction(id, throws)
  \/ \E i \in SocketIds, payload \in CoordEditPayloads :
       RecvApplyEdits(i, payload, TRUE)
  \/ \E k \in 1 .. MaxPendingEdits, applied \in BOOLEAN : EditsApplied(k, applied)
  \/ \E i \in SocketIds, payload \in CoordTaskPayloads :
       /\ payload.mode = "process" => procs = << >>
       /\ RecvTaskRequest(i, payload)
  \/ \E k \in 1 .. MaxProcs, j \in 1 .. MaxSeqLen, outcome \in Outcomes :
       ProcessSettled(k, j, outcome)
  \/ CoordinatorDispose

SpecCoord == InitReady /\ [][NextCoord]_vars

\* process-mode task requests and the children they start; a request
\* without an actionId carries one entry
ProcessTaskPayloads ==
  { p \in TaskPayloads({ "process" }) :
      /\ p.command = UNDEF
      /\ p.cwd = UNDEF
      /\ p.actionId = "fmt" \/ Len(p.sequence) = 1 }
    \cup [ actionId : { "fmt" }, mode : { "process" },
           sequence : UnspawnableSequences,
           command : { UNDEF }, args : { << >> }, cwd : { UNDEF } ]

\* chunks of a line followed by a form feed alone on its line, and of two
\* lines around a blank one
Outputs ==
  { [ stream |-> "stdout", chunk |-> "hello\n\f\n" ],
    [ stream |-> "stderr", chunk |-> " a \r\n\nb" ] }

NextTasks ==
  \/ \E i \in SocketIds : SocketClose(i)
  \/ \E i \in SocketIds, payload \in ProcessTaskPayloads : RecvTaskRequest(i, payload)
  \/ \E k \in 1 .. MaxProcs, j \in 1 .. MaxSeqLen, outcome \in Outcomes :
       ProcessSettled(k, j, outcome)
  \/ \E k \in 1 .. MaxProcs, j \in 1 .. MaxSeqLen, out \in Outputs :
       ProcessOutput(k, j, out.stream, out.chunk)
  \/ CoordinatorDispose

SpecTasks == InitReady /\ [][NextTasks]_vars

\* the registry alone: callers that register actions under sources; a source
\* is any string, the empty one included
RegistrySources == { "local", "mcp", "" }

RegistryIds == { "refactor-selection", "x" }

\* the actions a caller passes: without a source field, or with one of their
\* own
RegistryActions ==
  { [ id |-> id, label |-> "Label of " \o id, description |-> UNDEF,
      command |-> RUN_MCP_ACTION, args |-> UNDEF, emphasis |-> UNDEF,
      disabled |-> UNDEF, source |-> src ] :
      id \in RegistryIds, src \in { UNDEF, "mcp" } }

\* the lists a caller passes: lists that name no id twice, and one that names
\* x twice, without a source field and with one
RegistryLists ==
  { L \in SeqsUpTo(RegistryActions, MaxActions) :
      \A j, k \in DOMAIN L : L[j].id = L[k].id => j = k }
    \cup { << CHOOSE a \in RegistryActions : a.id = "x" /\ a.source = UNDEF,
              CHOOSE a \in RegistryActions : a.id = "x" /\ a.source = "mcp" >> }

SetActionsForSource(source, actions) ==
  Do(setActionsForSource(World, source, actions), "setActionsForSource",
     [ source |-> source, actions |-> actions ])

RegisterAction(action, source) ==
  Do(registerAction(World, action, source), "registerAction",
     [ source |-> source, action |-> action ])

OrchestratorDispose == Do(orchestratorDispose(World), "orchestratorDispose", "")

\* a caller that sets the actions of a source and clears them at once
SetThenClear(source, actions) ==
  Do(setActionsForSource(setActionsForSource(World, source, actions), source, << >>),
     "setThenClear", [ source |-> source, actions |-> actions ])

NextRegistry ==
  \/ \E source \in RegistrySources, actions \in RegistryLists :
       SetActionsForSource(source, actions)
  \/ \E source \in RegistrySources, action \in RegistryActions :
       RegisterAction(action, source)
  \/ \E source \in RegistrySources, actions \in RegistryLists :
       SetThenClear(source, actions)
  \/ OrchestratorDispose

SpecRegistry == Init /\ [][NextRegistry]_vars

\* the patches a caller of updateAction passes: display fields, and the two
\* fields the registry is keyed by
Patches ==
  { [ label |-> "Renamed", disabled |-> "true", emphasis |-> "primary" ],
    [ source |-> "mcp" ], [ id |-> "x" ] }

UpdateAction(id, updates) ==
  Do(updateAction(World, id, updates), "updateAction", [ id |-> id, updates |-> updates ])

\* the registry under all three of its mutating calls; the actions carry no
\* source field and are filed under the source of the call
NextIndexes ==
  \/ \E source \in RegistrySources,
        actions \in SeqsUpTo({ a \in RegistryActions : a.source = UNDEF }, 1) :
       SetActionsForSource(source, actions)
  \/ \E source \in RegistrySources, action \in { a \in RegistryActions : a.source = UNDEF } :
       RegisterAction(action, source)
  \/ \E id \in RegistryIds \cup { "zz" }, updates \in Patches : UpdateAction(id, updates)
  \/ OrchestratorDispose

SpecIndexes == Init /\ [][NextIndexes]_vars

----------------------------------------------------------------------------
\* AutoRefactorController.  A handler is an operator on the controller record;
\* notified lists the calls of notifySuggestion it made (the request whose
\* result was announced, 0 for undefined) and output the lines it appended to
\* the output channel.  timers holds the keys of the timers map; dispose()
\* cancels the timers and leaves the map as it is, so a timer is armed when
\* its key is in the map and the controller is not disposed.  A request is
\* [id, key, version, phase]: the requestId and the document version
\* runRefactor read before its first await and the promise it awaits now
\* (refactor, diff, prompt, apply).  A result is named by the id of its
\* request; its explanation is drawn where runRefactor reads it.  last.input
\* holds the arguments of the call and what it threw; the active editor and
\* the answer of shouldProcess are reads of the host.

AutoController ==
  [ timers |-> debounceTimers, suggestions |-> suggestions,
    activeRequest |-> activeRequest, statusText |-> statusText,
    previews |-> previews, requests |-> requests, disposed |-> autoDisposed,
    notified |-> << >>, output |-> << >> ]

\* the timer of the key, if any, is cleared and a new one is armed
queue(c, key) == [ c EXCEPT !.timers = @ \cup { key } ]

clear(c, key) ==
  [ c EXCEPT !.timers = @ \ { key },
             !.suggestions = Without(@, { key }),
             !.notified = IF key \in DOMAIN c.suggestions THEN Append(@, 0) ELSE @,
             !.previews = Without(@, { key }),
             !.statusText = STATUS_IDLE ]

\* editor: the document of the active editor, UNDEF without one;
\* processable: shouldProcess(editor.document)
onDocumentChanged(c, key, editor, processable) ==
  IF editor = UNDEF \/ editor # key THEN c
  ELSE IF ~processable THEN c
  ELSE queue(c, key)

triggerActiveEditorScan(c, editor, processable) ==
  IF editor = UNDEF THEN c
  ELSE IF processable THEN queue(c, editor)
  ELSE clear(c, editor)

\* the constructor: the listeners are registered, then the active editor is
\* scanned
constructor(editor, processable) ==
  triggerActiveEditorScan(NewController, editor, processable)

\* the timers are cancelled, the listeners removed, the suggestions dropped
\* without a notification
dispose(c) == [ c EXCEPT !.disposed = TRUE, !.suggestions = << >> ]

\* the request awaits the next promise
Awaits(c, r, phase) ==
  [ c EXCEPT !.requests = (@ \ { r }) \cup { [ r EXCEPT !.phase = phase ] } ]

\* runRefactor up to its first await: version is doc.version at this moment
runRefactor(c, key, version) ==
  LET requestId == c.activeRequest + 1
  IN [ c EXCEPT !.timers = @ \ { key },
                !.activeRequest = requestId,
                !.statusText = STATUS_THINKING,
                !.requests = @ \cup { [ id |-> requestId, key |-> key,
                                        version |-> version,
                                        phase |-> "refactor" ] } ]

\* the catch block of runRefactor
runRefactorRejected(c, r, message) ==
  [ c EXCEPT !.requests = @ \ { r },
             !.statusText = IF r.id = c.activeRequest THEN STATUS_IDLE ELSE @,
             !.output = Append(@, "[GenRefactorer] Auto-refactor failed: " \o message) ]

\* a continuation that stores the result whatever happened to the document
runRefactorResolved_ignoresVersion(c, r, version, throws) ==
  IF r.id # c.activeRequest
  THEN [ c EXCEPT !.requests = @ \ { r } ]
  ELSE LET stored == [ c EXCEPT !.suggestions =
                                   With(@, r.key, [ refactored |-> r.id,
                                                    documentVersion |-> r.version ]),
                                 !.notified = Append(@, r.id) ]
           ready == [ stored EXCEPT !.statusText = STATUS_READY ]
           shown == [ ready EXCEPT !.previews = With(@, r.key, r.id) ]
       IN IF throws.at = "notifySuggestion"
          THEN runRefactorRejected(stored, r, throws.message)
          ELSE IF throws.at = "updatePreview"
          THEN runRefactorRejected(ready, r, throws.message)
          ELSE Awaits(shown, r, "diff")

\* runRefactor after refactorCode resolved, up to the await of the diff
\* command: version is doc.version now, throws the call that throws, if any
runRefactorResolved(c, r, version, throws) ==
  IF r.id # c.activeRequest \/ version # r.version
  THEN [ c EXCEPT !.requests = @ \ { r } ]
  ELSE LET stored == [ c EXCEPT !.suggestions =
                                   With(@, r.key, [ refactored |-> r.id,
                                                    documentVersion |-> r.version ]),
                                 !.notified = Append(@, r.id) ]
           ready == [ stored EXCEPT !.statusText = STATUS_READY ]
           shown == [ ready EXCEPT !.previews = With(@, r.key, r.id) ]
       IN IF throws.at = "notifySuggestion"
          THEN runRefactorRejected(stored, r, throws.message)
          ELSE IF throws.at = "updatePreview"
          THEN runRefactorRejected(ready, r, throws.message)
          ELSE Awaits(shown, r, "diff")

\* runRefactor after the diff command settled, up to the await of the prompt:
\* explanation is result.explanation
runRefactorDiffSettled(c, r, explanation, throws) ==
  IF throws.raised THEN runRefactorRejected(c, r, throws.message)
  ELSE Awaits([ c EXCEPT !.output =
                  @ \o << "GenRefactorer prepared a background suggestion." >>
                    \o (IF explanation \in { UNDEF, "" } THEN << >>
                        ELSE << explanation >>) ],
              r, "prompt")

\* promptToApply after the prompt settled: action is the button, UNDEF when
\* the message was closed; version is doc.version now
promptToApply(c, r, action, version, throws) ==
  LET finished == [ c EXCEPT !.requests = @ \ { r } ]
  IN IF throws.raised THEN runRefactorRejected(c, r, throws.message)
     ELSE IF version # r.version THEN finished
     ELSE IF action = "Apply" THEN Awaits(c, r, "apply")
     ELSE IF action = "Dismiss" THEN clear(finished, r.key)
     ELSE finished

\* applySuggestion after applyEdit settled
applySuggestion(c, r, applied, throws) ==
  LET finished == [ c EXCEPT !.requests = @ \ { r } ]
  IN IF throws.raised THEN runRefactorRejected(c, r, throws.message)
     ELSE IF applied
     THEN clear([ finished EXCEPT
                    !.output = Append(@, "GenRefactorer auto suggestion applied.") ],
                r.key)
     ELSE finished

AutoCommit(c, op, input) ==
  /\ debounceTimers' = c.timers
  /\ suggestions' = c.suggestions
  /\ activeRequest' = c.activeRequest
  /\ statusText' = c.statusText
  /\ previews' = c.previews
  /\ requests' = c.requests
  /\ autoDisposed' = c.disposed
  /\ last' = [ op |-> op, input |-> input,
               ret |-> [ notified |-> c.notified, output |-> c.output ],
               completed |-> << >> ]
  /\ emitted' = << >>
  /\ UNCHANGED << coreVars, busVars, panelVars >>

\* the host fires onDidChangeTextDocument for a document: after an edit, which
\* raises the version, or after a change of its dirty state, which does not.
\* A disposed controller has no listener.
DocumentChanged(key, edited, editor, processable) ==
  /\ edited => docVersion[key] < MaxVersion
  /\ docVersion' = IF edited THEN [ docVersion EXCEPT ![key] = @ + 1 ] ELSE docVersion
  /\ AutoCommit(IF autoDisposed THEN AutoController
                ELSE onDocumentChanged(AutoController, key, editor, processable),
                "documentChanged", key)

\* the host fires onDidChangeActiveTextEditor
ActiveEditorChanged(editor, processable) ==
  /\ ~autoDisposed
  /\ AutoCommit(triggerActiveEditorScan(AutoController, editor, processable),
                "activeEditorChanged", "")
  /\ UNCHANGED docVersion

\* the debounce timer of a document fires
DebounceFired(key) ==
  /\ key \in debounceTimers
  /\ ~autoDisposed
  /\ activeRequest < MaxRequests
  /\ AutoCommit(runRefactor(AutoController, key, docVersion[key]), "runRefactor", key)
  /\ UNCHANGED docVersion

\* the refactor service answers a request, in any order
RefactorResolved(r, throws) ==
  /\ r \in requests
  /\ r.phase = "refactor"
  /\ AutoCommit(runRefactorResolved(AutoController, r, docVersion[r.key], throws),
                "refactorResolved", [ request |-> r, throws |-> throws ])
  /\ UNCHANGED docVersion

RefactorRejected(r, message) ==
  /\ r \in requests
  /\ r.phase = "refactor"
  /\ AutoCommit(runRefactorRejected(AutoController, r, message), "refactorRejected",
                [ request |-> r, message |-> message ])
  /\ UNCHANGED docVersion

\* the diff command settles
DiffSettled(r, explanation, throws) ==
  /\ r \in requests
  /\ r.phase = "diff"
  /\ AutoCommit(runRefactorDiffSettled(AutoController, r, explanation, throws),
                "diffSettled", [ request |-> r, throws |-> throws ])
  /\ UNCHANGED docVersion

\* the user answers the prompt or closes it
PromptAnswered(r, action, throws) ==
  /\ r \in requests
  /\ r.phase = "prompt"
  /\ AutoCommit(promptToApply(AutoController, r, action, docVersion[r.key], throws),
                "promptAnswered",
                [ request |-> r, action |-> action, throws |-> throws ])
  /\ UNCHANGED docVersion

\* applyEdit settles; the change of the document it makes is a step of its own
ApplyEditSettled(r, applied, throws) ==
  /\ r \in requests
  /\ r.phase = "apply"
  /\ AutoCommit(applySuggestion(AutoController, r, applied, throws), "applyEditSettled",
                [ request |-> r, applied |-> applied, throws |-> throws ])
  /\ UNCHANGED docVersion

\* the host fires onDidCloseTextDocument
ClearDocument(key) ==
  /\ ~autoDisposed
  /\ AutoCommit(clear(AutoController, key), "clear", key)
  /\ UNCHANGED docVersion

\* the extension host disposes the controller
AutoDispose ==
  /\ AutoCommit(dispose(AutoController), "dispose", "")
  /\ UNCHANGED docVersion

Editors == Docs \cup { UNDEF }

\* the requests that await the promise of a phase
Requests(phase) ==
  [ id : 1 .. MaxRequests, key : Docs, version : 1 .. MaxVersion, phase : { phase } ]

Explanations == { UNDEF, "Extracted a helper." }

\* the calls of runRefactor between its first two awaits that can throw
ResolveFailures ==
  { [ at |-> "", message |-> "" ],
    [ at |-> "notifySuggestion", message |-> "listener failed" ],
    [ at |-> "updatePreview", message |-> "URI malformed" ] }

\* a promise of the host that resolves, or rejects because it was cancelled
HostFailures == { NoThrow, Thrown("Canceled") }

NextAuto ==
  \/ \E key \in Docs, edited \in BOOLEAN, editor \in Editors, processable \in BOOLEAN :
       DocumentChanged(key, edited, editor, processable)
  \/ \E editor \in Editors, processable \in BOOLEAN :
       ActiveEditorChanged(editor, processable)
  \/ \E key \in Docs : DebounceFired(key)
  \/ \E r \in Requests("refactor"), throws \in ResolveFailures :
       RefactorResolved(r, throws)
  \/ \E r \in Requests("refactor") :
       RefactorRejected(r, "Request to refactoring service timed out.")
  \/ \E r \in Requests("diff"), explanation \in Explanations, throws \in HostFailures :
       DiffSettled(r, explanation, throws)
  \/ \E r \in Requests("prompt"), action \in { UNDEF, "Apply", "Explain", "Dismiss" },
        throws \in HostFailures :
       PromptAnswered(r, action, throws)
  \/ \E r \in Requests("apply"), applied \in BOOLEAN, throws \in HostFailures :
       ApplyEditSettled(r, applied, throws)
  \/ \E key \in Docs : ClearDocument(key)
  \/ AutoDispose

\* the extension is activated with or without an active editor
InitAuto ==
  \E editor \in Editors, processable \in BOOLEAN :
    StartWith(InitWorld, "activate", constructor(editor, processable))

SpecAuto == InitAuto /\ [][NextAuto]_vars

\* a user who chats over a connection that drops and comes back
NextChat ==
  \/ \E message \in ChatMessages, includeContext \in BOOLEAN, throws \in Exceptions :
       SendChatMessage(message, includeContext, throws)
  \/ \E i \in SocketIds : SocketClose(i)
  \/ TimerFire
  \/ \E i \in SocketIds : SocketOpen(i, NoThrow)

SpecChat == InitReady /\ [][NextChat]_vars

\* a bridge that is reconfigured and disposed while its sockets emit events
NextTerminated ==
  \/ \E partial \in Configurations : ApplyConfiguration(partial)
  \/ Dispose
  \/ TimerFire
  \/ \E i \in SocketIds : SocketOpen(i, NoThrow)
  \/ \E i \in SocketIds : SocketClose(i)
  \/ \E i \in SocketIds, event \in SocketEvents : TerminatedSocketEvent(i, event)

SpecTerminated == Init /\ [][NextTerminated]_vars

\* requests of every shape; a working directory only in terminal mode
NormalizePayloads ==
  { p \in TaskPayloads({ UNDEF, "terminal", "process" }) :
      p.cwd = UNDEF \/ p.mode = "terminal" }
    \cup [ actionId : { "fmt" }, mode : { "terminal", "process" },
           sequence : { << >>, ArgSequence },
           command : { "legacy" }, args : { << "-q" >> }, cwd : { UNDEF } ]

\* a server that answers an invocation of fmt with task requests of every
\* shape, one process run at most
NextNormalize ==
  \/ \E i \in SocketIds, payload \in RegisterPayloads({ "fmt" }, 1) :
       RecvRegisterActions(i, payload)
  \/ InvokeRemoteAction("fmt", NoThrow)
  \/ \E i \in SocketIds, payload \in NormalizePayloads :
       /\ payload.mode = "process" => procs = << >>
       /\ RecvTaskRequest(i, payload)
  \/ \E i \in SocketIds : RecvTaskRequest(i, NoPayload)
  \/ \E k \in 1 .. MaxProcs, j \in 1 .. MaxSeqLen, outcome \in Outcomes :
       ProcessSettled(k, j, outcome)

SpecNormalize == InitReady /\ [][NextNormalize]_vars

\* task requests that run in the terminal: no mode, the terminal mode, a mode
\* the coordinator does not know; no directory, an empty one, a plain path, a
\* path with a double quote
TerminalPayloads ==
  [ actionId : { "", "fmt" }, mode : { UNDEF, "terminal", "shell" },
    sequence : { SubSeq(StepNames, 1, n) : n \in 0 .. MaxSeqLen },
    command : { UNDEF, "legacy" }, args : { << >> },
    cwd : { UNDEF, "", "/w", "a\"b" } ]
    \cup [ actionId : { "", "fmt" }, mode : { UNDEF, "shell" },
           sequence : { << >>, ArgSequence, << Entry("\f", << " a " >>) >> },
           command : { UNDEF, "legacy" }, args : { << "-q" >> },
           cwd : { UNDEF, "a\"b" } ]

NextTerminal ==
  \/ \E i \in SocketIds, payload \in RegisterPayloads({ "fmt" }, 1) :
       RecvRegisterActions(i, payload)
  \/ InvokeRemoteAction("fmt", NoThrow)
  \/ \E i \in SocketIds, payload \in TerminalPayloads : RecvTaskRequest(i, payload)

SpecTerminal == InitReady /\ [][NextTerminal]_vars

\* inbound frames of the remaining types
\* input: whether the send of the snapshot raises
RecvContextRequest(i, throws) ==
  /\ sockets[i].rs = "OPEN"
  /\ sockets[i].attached
  /\ Do(handleMessage(World, [ type |-> "assistant/contextRequest", payload |-> UNDEF ],
                      FALSE, throws),
        "assistant/contextRequest", throws)

LogPayloads == [ message : { UNDEF, "note" }, level : { UNDEF, "warn" } ]

RecvLog(i, payload) == Recv(i, [ type |-> "assistant/log", payload |-> payload ], FALSE)

ChatResponsePayloads == [ message : { UNDEF, "", "ok" }, role : { "assistant", "system" } ]

RecvChatResponse(i, payload) ==
  Recv(i, [ type |-> "assistant/chatResponse", payload |-> payload ], FALSE)

\* the types of the frames the client itself sends
OutboundTypes ==
  { "assistant/hello", "assistant/actionTriggered", "assistant/chatMessage",
    "context.snapshot" }

\* types the coordinator's switch has no case for: an invented one, and the
\* client's own types echoed back by the server
UnknownTypes == { "assistant/bogus" } \cup OutboundTypes

RecvUnknown(i, type) == Recv(i, [ type |-> type, payload |-> UNDEF ], FALSE)

\* the whole dispatch: a server that registers fmt and lint, answers with
\* completions, chat responses, logs, context requests and frames of unknown
\* types, while the user invokes actions, chats and sends the context and the
\* connection comes and goes
NextDispatch ==
  \/ \E i \in SocketIds, payload \in RegisterPayloads(CoordIds, MaxActions) :
       RecvRegisterActions(i, payload)
  \/ \E id \in CoordIds : InvokeRemoteAction(id, NoThrow)
  \/ SendContext(NoThrow)
  \/ SendChatMessage(<< 104, 105 >>, TRUE, NoThrow)
  \/ \E i \in SocketIds, payload \in CompletePayloads(CoordIds) :
       RecvActionComplete(i, payload)
  \/ \E i \in SocketIds, throws \in Exceptions : RecvContextRequest(i, throws)
  \/ \E i \in SocketIds, payload \in LogPayloads : RecvLog(i, payload)
  \/ \E i \in SocketIds, payload \in ChatResponsePayloads : RecvChatResponse(i, payload)
  \/ \E i \in SocketIds, type \in UnknownTypes : RecvUnknown(i, type)
  \/ \E i \in SocketIds : SocketClose(i)
  \/ TimerFire
  \/ \E i \in SocketIds : SocketOpen(i, NoThrow)

SpecDispatch == InitReady /\ [][NextDispatch]_vars

\* the coordinator is disposed while the bridge lives on: the server goes on
\* sending frames, the connection drops and returns, and a process run that
\* was started before the disposal goes on
NextDisposed ==
  \/ \E i \in SocketIds, payload \in RegisterPayloads({ "fmt" }, 1) :
       RecvRegisterActions(i, payload)
  \/ \E id \in { "fmt", "", UNDEF } : InvokeRemoteAction(id, NoThrow)
  \/ \E i \in SocketIds, payload \in ProcessTaskPayloads :
       /\ procs = << >>
       /\ RecvTaskRequest(i, payload)
  \/ \E k \in 1 .. MaxProcs, j \in 1 .. MaxSeqLen, outcome \in Outcomes :
       ProcessSettled(k, j, outcome)
  \/ CoordinatorDispose
  \/ \E i \in SocketIds, payload \in CompletePayloads({ "fmt" }) :
       RecvActionComplete(i, payload)
  \/ \E i \in SocketIds, throws \in Exceptions : RecvContextRequest(i, throws)
  \/ \E i \in SocketIds : RecvChatResponse(i, [ message |-> "ok", role |-> "assistant" ])
  \/ \E i \in SocketIds : RecvUnknown(i, "assistant/bogus")
  \/ \E i \in SocketIds : SocketError(i)
  \/ \E i \in SocketIds : SocketClose(i)
  \/ TimerFire
  \/ \E i \in SocketIds : SocketOpen(i, NoThrow)

SpecDisposed == InitReady /\ [][NextDisposed]_vars

\* a server that registers fmt and lint and updates their state
NextUpdates ==
  \/ \E i \in SocketIds, payload \in RegisterPayloads(CoordIds, MaxActions) :
       RecvRegisterActions(i, payload)
  \/ \E i \in SocketIds, payload \in StateUpdatePayloads :
       RecvActionStateUpdate(i, payload)
  \/ \E i \in SocketIds : SocketClose(i)

SpecUpdates == InitReady /\ [][NextUpdates]_vars

\* a server that answers an invocation of fmt with apply-edits frames
NextEdits ==
  \/ InvokeRemoteAction("fmt", NoThrow)
  \/ \E i \in SocketIds, payload \in EditPayloads, hasWorkspace \in BOOLEAN :
       RecvApplyEdits(i, payload, hasWorkspace)
  \/ \E k \in 1 .. MaxPendingEdits, applied \in BOOLEAN : EditsApplied(k, applied)
  \/ \E i \in SocketIds, payload \in RegisterPayloads({ "fmt" }, 1) :
       RecvRegisterActions(i, payload)

\* the extension host runs on Windows or on another platform
InitEdits == \E windows \in BOOLEAN : Start([ ReadyWorld EXCEPT !.isWindows = windows ], "open")

SpecEdits == InitEdits /\ [][NextEdits]_vars

\* a server that completes the invocations of fmt and lint, some of them twice
NextComplete ==
  \/ \E i \in SocketIds, payload \in RegisterPayloads(CoordIds, MaxActions) :
       RecvRegisterActions(i, payload)
  \/ \E id \in CoordIds : InvokeRemoteAction(id, NoThrow)
  \/ \E i \in SocketIds, payload \in CompletePayloads(CoordIds) :
       RecvActionComplete(i, payload)
  \/ \E i \in SocketIds, payload \in CompletePayloads(CoordIds) :
       RecvActionCompleteTwice(i, payload)

SpecComplete == InitReady /\ [][NextComplete]_vars

----------------------------------------------------------------------------
\* Properties of the bridge (SpecBridge)

LiveSockets == { i \in SocketIds : sockets[i].rs \in { "CONNECTING", "OPEN" } }

\* C1: whatever the sequence of applyConfiguration calls, socket events,
\* timer firings and dispose, at most one socket is connecting or open.
AtMostOneLiveSocket == Cardinality(LiveSockets) <= 1

\* a restart terminated a live socket and opened the next one
RestartReplacedSocket ==
  /\ last.op = "applyConfiguration"
  /\ socket # 0
  /\ sockets[socket].rs = "CONNECTING"
  /\ \E j \in SocketIds : j # socket /\ sockets[j].rs = "CLOSING" /\ ~sockets[j].attached

Outbound(events) ==
  { k \in 1 .. Len(events) : events[k].ev = "bridgeMessage" /\ events[k].tag = "outbound" }

\* C2 (as claimed): a call of send() made while the bridge state is not
\* Ready returns false and publishes no outbound bridge-message event.
SendRefusedUnlessReady ==
  [][ (last'.op = "send" /\ state # "ready")
        => (~last'.ret /\ Outbound(emitted') = {}) ]_vars

ExpectedDelay(retry) ==
  CASE retry = 1 -> 2000
    [] retry = 2 -> 4000
    [] retry = 3 -> 8000
    [] retry = 4 -> 16000
    [] OTHER -> 30000

\* C8: the delay of the armed reconnect timer is 2000, 4000, 8000, 16000 ms
\* for the 1st to 4th consecutive failure and 30000 ms from the 5th on:
\* never above 30000 and never below the delay of the failure before.
BackoffDelaySchedule ==
  reconnectTimer = "pending" =>
    /\ retryCount >= 1
    /\ reconnectDelay = ExpectedDelay(retryCount)
    /\ reconnectDelay <= 30000
    /\ retryCount > 1 => reconnectDelay >= ExpectedDelay(retryCount - 1)

\* the timer is armed after a 6th consecutive failure
SixthFailureScheduled ==
  reconnectTimer = "pending" /\ retryCount = 6 /\ reconnectDelay = 30000


Retriable == config.enabled /\ config.endpoint # UNDEF /\ ~disposed

\* the handlers that follow have room for n log entries below max
LogRoom(n, max) == logSequence + n <= max

\* a socket error or close reached the bridge's handlers (the close handler
\* that follows an error logs three entries)
TransportFailure ==
  \/ last.op = "error" /\ retryCount < MaxRetry /\ LogRoom(3, MaxHandlerLogs)
  \/ last.op = "close" /\ last.input = "attached"

\* connect() failed to create the socket
OpenFailure ==
  /\ last.op \in { "timer", "applyConfiguration" }
  /\ ConstructorThrows(config.endpoint)

\* connect() is called again, or the bridge is reconfigured or disposed
Reattempt == last.op \in { "timer", "applyConfiguration", "dispose" }

\* C9: while the bridge is enabled with an endpoint and not disposed, a
\* socket error leaves the state Error, a socket close leaves it
\* Disconnected with the reconnect timer armed, a failed open leaves it
\* Error with the timer armed, whatever the number of failures before; and
\* every such failure is followed by another call of connect() (unless the
\* bridge is reconfigured or disposed first).  A repeated open failure shows
\* as the retry counter moving on.
TransportErrorsNeverFatal ==
  /\ [](Retriable =>
          /\ last.op = "error" => state = "error"
          /\ (last.op = "close" /\ last.input = "attached")
               => (state = "disconnected" /\ reconnectTimer = "pending")
          /\ OpenFailure => (state = "error" /\ reconnectTimer = "pending"))
  /\ (Retriable /\ TransportFailure) ~> Reattempt
  /\ \A parity \in 0 .. 1 :
       (Retriable /\ OpenFailure /\ retryCount < MaxRetry /\ LogRoom(4, MaxTimerLogs)
          /\ retryCount % 2 = parity)
         ~> (retryCount % 2 # parity \/ reconnectTimer # "pending")

\* connect() runs again after two consecutive failures
ReconnectAfterFailures ==
  /\ last.op = "timer"
  /\ retryCount >= 2
  /\ socket # 0
  /\ sockets[socket].rs = "CONNECTING"

----------------------------------------------------------------------------
\* Properties of the remote actions (SpecRemote)

\* the registry's actions of a source
ActionsOfSource(source) ==
  { actionMap[id] : id \in { x \in DOMAIN actionMap : actionMap[x].source = source } }

\* C3 (as claimed): after every transition of the bridge state out of Ready
\* the registry holds no action of the 'mcp' source and the coordinator holds
\* no remote-action mapping.
RemoteWipedOnLeavingReady ==
  [][ (state = "ready" /\ state' # "ready")
        => (ActionsOfSource("mcp")' = {} /\ remoteActions' = << >>) ]_vars

\* C10 (as claimed): after a register-actions frame with an actions array L
\* the registry's 'mcp' actions are exactly the actions mapped from L, the
\* coordinator's mappings are exactly the ids of L, and the actions of the
\* other sources are what they were.
RegisterReplacesRemoteBucket ==
  (last.op = "assistant/registerActions" /\ last.input.isArray) =>
    LET L == last.input.actions
    IN /\ ActionsOfSource("mcp") = { MappedAction(L[k]) : k \in DOMAIN L }
       /\ DOMAIN remoteActions = { L[k].id : k \in DOMAIN L }
       /\ ActionsOfSource("local") = { InitWorld.actionMap[id] : id \in LocalIds }

----------------------------------------------------------------------------
\* Properties of the coordinator (SpecCoord)

\* the step sent the invocation frame of id
InvocationSent(events, id) ==
  \E k \in 1 .. Len(events) :
    /\ events[k].ev = "bridgeMessage"
    /\ events[k].tag = "outbound"
    /\ events[k].id = "assistant/actionTriggered"
    /\ events[k].arg = id

\* C4: while the coordinator is not disposed, an id enters the in-flight set
\* only in a call of invokeRemoteAction for that id whose frame was sent, and
\* leaves it only in a step that calls completeAction for that id; a close
\* of the socket, a register-actions frame and an action-state-update
\* leave the set alone.
InFlightEntersAndLeaves ==
  [][ ~coordDisposed' =>
        /\ \A id \in inflightActions' \ inflightActions :
             /\ last'.op = "invokeRemoteAction"
             /\ last'.input = id
             /\ InvocationSent(emitted', id)
        /\ \A id \in inflightActions \ inflightActions' :
             \E k \in 1 .. Len(last'.completed) : last'.completed[k].id = id
        /\ last'.op \in { "close", "assistant/registerActions",
                          "assistant/actionStateUpdate" }
             => inflightActions' = inflightActions ]_vars

\* fmt completes while lint, whose mapping a later register-actions frame
\* dropped, is still in flight
CompletedWhileOtherInFlight ==
  /\ last.op = "assistant/actionComplete"
  /\ last.input.actionId = "fmt"
  /\ inflightActions = { "lint" }
  /\ "lint" \notin DOMAIN remoteActions
  /\ ~coordDisposed

StatusEvents(events) == SelectSeq(events, LAMBDA e : e.ev = "status")

\* C5: a step that calls completeAction(id, status, message) leaves id out of
\* the in-flight set and publishes exactly one status: error when status is
\* error, else processing with the remaining count when ids remain in
\* flight, else idle.
CompleteActionStatus ==
  Len(last.completed) > 0 =>
    LET c == last.completed[1]
        published == StatusEvents(emitted)
    IN /\ Len(last.completed) = 1
       /\ c.id \notin inflightActions
       /\ Len(published) = 1
       /\ IF c.status = "error"
          THEN published[1].tag = "error"
          ELSE IF inflightActions # {}
          THEN /\ published[1].tag = "processing"
               /\ published[1].n = Cardinality(inflightActions)
          ELSE published[1].tag = "idle"

\* an action completes with an error while another is in flight
ErrorWhileOtherInFlight ==
  /\ Len(last.completed) = 1
  /\ last.completed[1].status = "error"
  /\ last.completed[1].id = "fmt"
  /\ inflightActions = { "lint" }

----------------------------------------------------------------------------
\* Properties of the process-mode tasks (SpecTasks)

\* C6: the children of one process-mode sequence run one after the other:
\* a child is started only when every child before it exited with code 0,
\* so at most one runs at a time and none is started after a failure, be it
\* a child that exited nonzero or could not be spawned, or a spawn that
\* raised: that one started no child, every child before it exited with 0,
\* and no child is started after it.
ProcessStrictlySequential ==
  /\ [](\A k \in 1 .. Len(procs) :
          LET c == procs[k].children
              t == procs[k].thrown
          IN /\ Len(c) <= Len(procs[k].cmds)
             /\ \A j \in 1 .. Len(c) - 1 : c[j] = "exit-0"
             /\ Cardinality({ j \in 1 .. Len(c) : c[j] = "running" }) <= 1
             /\ t # 0 => /\ t = Len(c) + 1
                         /\ t <= Len(procs[k].cmds)
                         /\ procs[k].cmds[t].command = ""
                         /\ \A j \in 1 .. Len(c) : c[j] = "exit-0")
  /\ [][ \A k \in 1 .. Len(procs) :
           LET c == procs[k].children
           IN (\/ procs[k].thrown # 0
               \/ \E j \in 1 .. Len(c) : c[j] \in { "exit-1", "spawn-error" })
                => /\ procs'[k].children = c
                   /\ procs'[k].thrown = procs[k].thrown ]_vars
  /\ [][ \A k \in 1 .. Len(procs) :
           Len(procs'[k].children) > Len(procs[k].children)
             => /\ last'.op = "processSettled"
                /\ last'.input.run = k
                /\ last'.input.outcome = "exit-0"
                /\ last'.input.child = Len(procs[k].children)
                /\ procs'[k].children = Append([ procs[k].children
                                                  EXCEPT ![last'.input.child] = "exit-0" ],
                                               "running") ]_vars

\* of two runs of two entries, the first entry of one exited nonzero or could
\* not be spawned, the spawn of the first entry of the other raised, and the
\* second entry of neither was started
SecondEntryNeverStarted ==
  \E k, m \in 1 .. Len(procs) :
    /\ Len(procs[k].cmds) = 2
    /\ Len(procs[k].children) = 1
    /\ procs[k].children[1] \in { "exit-1", "spawn-error" }
    /\ Len(procs[m].cmds) = 2
    /\ procs[m].children = << >>
    /\ procs[m].thrown = 1

\* the run is over: a spawn raised, or its last child failed, or its last
\* entry exited with 0
RunEnded(p) ==
  \/ p.thrown # 0
  \/ /\ Len(p.children) > 0
     /\ \/ p.children[Len(p.children)] \in { "exit-1", "spawn-error" }
        \/ Len(p.children) = Len(p.cmds) /\ p.children[Len(p.children)] = "exit-0"

\* the completion the claim expects of a run that is over
ExpectedCompletion(p) ==
  LET n == Len(p.children)
  IN IF p.thrown # 0
     THEN [ status |-> "error",
            message |-> "The argument 'file' cannot be empty. Received ''" ]
     ELSE IF p.children[n] = "exit-0"
     THEN [ status |-> "success",
            message |-> "Completed " \o ToString(Len(p.cmds)) \o " command(s)." ]
     ELSE [ status |-> "error",
            message |-> IF p.children[n] = "exit-1"
                        THEN p.cmds[n].command \o " exited with code 1"
                        ELSE "spawn " \o p.cmds[n].command \o " ENOENT" ]

\* C7: a process-mode run with an actionId issues no completion while it
\* runs and exactly one when it is over: success with the number of entries
\* when every entry exited with 0, else error with the message of the first
\* entry that failed (the message of its exit, of its spawn error, or of the
\* exception its spawn raised); the step that ends the run is the one that
\* calls completeAction, be it the one in which a child settles or the one
\* of the request itself.
ProcessRunCompletesOnce ==
  /\ [](\A k \in 1 .. Len(procs) :
          LET p == procs[k]
          IN /\ p.rejection = UNDEF
             /\ p.actionId \notin { UNDEF, "" } =>
                  IF RunEnded(p)
                  THEN p.completions = << ExpectedCompletion(p) >>
                  ELSE p.completions = << >>)
  /\ [](last.op = "processSettled" =>
          LET p == procs[last.input.run]
          IN IF RunEnded(p) /\ p.actionId \notin { UNDEF, "" }
             THEN last.completed =
                    << [ id |-> p.actionId,
                         status |-> ExpectedCompletion(p).status,
                         message |-> ExpectedCompletion(p).message ] >>
             ELSE last.completed = << >>)
  /\ [][ (last'.op = "assistant/taskRequest" /\ Len(procs') = Len(procs) + 1) =>
           LET p == procs'[Len(procs')]
           IN IF RunEnded(p) /\ p.actionId \notin { UNDEF, "" }
              THEN last'.completed =
                     << [ id |-> p.actionId, status |-> "error",
                          message |-> "The argument 'file' cannot be empty. Received ''" ] >>
              ELSE last'.completed = << >> ]_vars

\* of two runs of two entries, one ended in error when its second child
\* exited nonzero, the other when the spawn of its second entry raised
RunFailedAtSecondEntry ==
  \E k, m \in 1 .. Len(procs) :
    /\ procs[k].actionId = "fmt"
    /\ procs[k].children = << "exit-0", "exit-1" >>
    /\ procs[k].completions =
         << [ status |-> "error", message |-> "step2 exited with code 1" ] >>
    /\ procs[m].actionId = "fmt"
    /\ procs[m].children = << "exit-0" >>
    /\ procs[m].thrown = 2
    /\ procs[m].completions =
         << [ status |-> "error",
              message |-> "The argument 'file' cannot be empty. Received ''" ] >>

----------------------------------------------------------------------------
\* Properties of the id transform (SpecRemote)

\* C11 (as claimed): distinct remote ids of one register-actions frame map to
\* distinct local ids, so after the frame the registry holds as many 'mcp'
\* actions as the coordinator holds remote-action mappings.
RemoteIdTransformInjective ==
  (last.op = "assistant/registerActions" /\ last.input.isArray) =>
    LET L == last.input.actions
    IN /\ \A a, b \in DOMAIN L :
            L[a].id # L[b].id => toClientActionId(L[a].id) # toClientActionId(L[b].id)
       /\ Cardinality(ActionsOfSource("mcp")) = Cardinality(DOMAIN remoteActions)

----------------------------------------------------------------------------
\* Properties of the registry (SpecRegistry)

\* the source a registration files an action under
EffectiveSource(action, source) == IF action.source # UNDEF THEN action.source ELSE source

ListIds(actions) == { actions[k].id : k \in DOMAIN actions }

\* C12 (as claimed): an id is in the bucket of exactly one source, the one
\* recorded as its owner; a registration of X that files it under B leaves one
\* entry for X, owned by B and in no other bucket; and a later
\* setActionsForSource(A, list) with A another source and X not in the list
\* leaves X as it is.
IdOwnedByOneSource ==
  /\ [](\A id \in DOMAIN actionMap :
          /\ id \in DOMAIN actionSources
          /\ { s \in DOMAIN sourceIndex : id \in sourceIndex[s] } = { actionSources[id] })
  /\ [][ last'.op = "registerAction" =>
           LET X == last'.input.action.id
               B == EffectiveSource(last'.input.action, last'.input.source)
           IN /\ X \in DOMAIN actionMap'
              /\ actionSources'[X] = B
              /\ actionMap'[X].source = B
              /\ { s \in DOMAIN sourceIndex' : X \in sourceIndex'[s] } = { B } ]_vars
  /\ [][ last'.op = "setActionsForSource" =>
           \A X \in DOMAIN actionMap :
             (actionSources[X] # last'.input.source /\ X \notin ListIds(last'.input.actions))
               => /\ X \in DOMAIN actionMap'
                  /\ actionMap'[X] = actionMap[X]
                  /\ actionSources'[X] = actionSources[X] ]_vars

\* the registry after setActionsForSource(S, list); setActionsForSource(S, [])
\* has no action of S, and the actions of the other sources are those it had
PairLeavesOtherSources ==
  LET S == last'.input.source
  IN /\ \A id \in DOMAIN actionMap' : actionMap'[id].source # S
     /\ \A id \in DOMAIN actionSources' : actionSources'[id] # S
     /\ \A id \in DOMAIN actionMap :
          actionSources[id] # S =>
            /\ id \in DOMAIN actionMap'
            /\ actionMap'[id] = actionMap[id]
            /\ actionSources'[id] = actionSources[id]
     /\ DOMAIN actionMap' \subseteq DOMAIN actionMap

ListBelongsTo(S, actions) ==
  \A k \in DOMAIN actions :
    /\ actions[k].source \in { UNDEF, S }
    /\ actions[k].id \in DOMAIN actionSources => actionSources[actions[k].id] = S

\* every id of the bucket of S that the registry holds is recorded under S
BucketBelongsTo(S) ==
  S \in DOMAIN sourceIndex =>
    \A id \in sourceIndex[S] \cap DOMAIN actionSources : actionSources[id] = S

----------------------------------------------------------------------------
\* Properties of the bridge-state listener (SpecCoord)

ClearingLogged(events) ==
  \E k \in 1 .. Len(events) :
    /\ events[k].ev = "log"
    /\ events[k].tag = "Cleared MCP actions due to bridge disconnect."

\* C14: a step in which the bridge state becomes disconnected or error, the
\* coordinator listening, leaves no remote-action mapping and no 'mcp' action
\* in the registry, logs the clearing, and leaves the in-flight set as it was.
DisconnectClearsRemoteKeepsInFlight ==
  [][ (~coordDisposed /\ state' # state /\ state' \in { "disconnected", "error" })
        => /\ remoteActions' = << >>
           /\ \A id \in DOMAIN actionMap' : actionMap'[id].source # "mcp"
           /\ "mcp" \in DOMAIN sourceIndex' => sourceIndex'["mcp"] = {}
           /\ ClearingLogged(emitted')
           /\ inflightActions' = inflightActions ]_vars

\* the socket closed with fmt and lint in flight
ClosedWithActionsInFlight ==
  /\ last.op = "close"
  /\ state = "disconnected"
  /\ inflightActions = { "fmt", "lint" }
  /\ remoteActions = << >>
  /\ ActionsOfSource("mcp") = {}
  /\ ~coordDisposed

----------------------------------------------------------------------------
\* Properties of the action-state-update (SpecUpdates)

\* C15 (as claimed): after an action-state-update for a known remote id the
\* registry entry's disabled, label, description and emphasis are the
\* update's values, and the descriptor's for each field the update lacks.
StateUpdateFallsBackToDescriptor ==
  (/\ last.op = "assistant/actionStateUpdate"
   /\ last.input.actionId \in DOMAIN remoteActions) =>
    LET mapping == remoteActions[last.input.actionId]
        entry == actionMap[mapping.clientId]
    IN /\ entry.disabled = Coalesce(last.input.disabled, mapping.descriptor.disabled)
       /\ entry.label = Coalesce(last.input.label, mapping.descriptor.label)
       /\ entry.description = Coalesce(last.input.description, mapping.descriptor.description)
       /\ entry.emphasis = Coalesce(last.input.emphasis, mapping.descriptor.emphasis)

----------------------------------------------------------------------------
\* Properties of apply-edits (SpecEdits)

\* the positions of the file entries whose URI does not resolve
Unresolvable(fileEdits, hasWorkspace) ==
  { k \in 1 .. Len(fileEdits) :
      resolveUri(World, fileEdits[k].uri, hasWorkspace).ret = UNDEF }

RECURSIVE EditsOfResolvable(_, _)
\* every text edit of every resolvable entry, in the frame's order
EditsOfResolvable(fileEdits, hasWorkspace) ==
  IF fileEdits = << >> THEN << >>
  ELSE LET uri == resolveUri(World, Head(fileEdits).uri, hasWorkspace).ret
           own == IF uri = UNDEF \/ Head(fileEdits).edits = UNDEF THEN << >>
                  ELSE [ k \in 1 .. Len(Head(fileEdits).edits) |->
                           [ uri |-> uri, edit |-> Head(fileEdits).edits[k] ] ]
       IN own \o EditsOfResolvable(Tail(fileEdits), hasWorkspace)

SkipWarnings(events) ==
  SelectSeq(events, LAMBDA e : e.ev = "log" /\ e.id = "warn"
                               /\ e.tag = "Skipping MCP edit with unresolved URI")

\* C16: an apply-edits frame with a non-empty edits array logs one warning per
\* file entry whose URI does not resolve and submits every text edit of the
\* other entries to the host as one batch; when the host accepts the batch an
\* action named by the frame is completed with success, skipped entries or
\* not, and when the host rejects it the action is completed with error.
ApplyEditsSkipsUnresolvedAndCompletes ==
  /\ [][ (last'.op = "assistant/applyEdits" /\ Len(last'.input.payload.edits) > 0) =>
           LET fileEdits == last'.input.payload.edits
               hasWorkspace == last'.input.hasWorkspace
           IN /\ Len(SkipWarnings(emitted')) =
                   Cardinality(Unresolvable(fileEdits, hasWorkspace))
              /\ Len(pendingEdits') = Len(pendingEdits) + 1
              /\ pendingEdits'[Len(pendingEdits')].batch =
                   EditsOfResolvable(fileEdits, hasWorkspace)
              /\ inflightActions' = inflightActions
              /\ last'.completed = << >> ]_vars
  /\ [][ last'.op = "editsApplied" =>
           LET id == last'.input.edit.payload.actionId
           IN IF id \in { UNDEF, "" }
              THEN /\ last'.completed = << >>
                   /\ inflightActions' = inflightActions
              ELSE /\ Len(last'.completed) = 1
                   /\ last'.completed[1].id = id
                   /\ last'.completed[1].status =
                        (IF last'.input.applied THEN "success" ELSE "error")
                   /\ inflightActions' = inflightActions \ { id }
                   /\ Len(StatusEvents(emitted')) = 1
                   /\ StatusEvents(emitted')[1].tag =
                        (IF ~last'.input.applied THEN "error"
                         ELSE IF inflightActions' = {} THEN "idle"
                         ELSE "processing") ]_vars

\* the host accepted a batch of fmt from which an entry had been skipped
AcceptedBatchWithSkippedEntry ==
  /\ last.op = "editsApplied"
  /\ last.input.applied
  /\ last.input.edit.payload.actionId = "fmt"
  /\ \E k \in 1 .. Len(last.input.edit.payload.edits) :
       last.input.edit.payload.edits[k].uri = ""
  /\ Len(last.input.edit.batch) = 1
  /\ Len(last.completed) = 1
  /\ last.completed[1].status = "success"
  /\ "fmt" \notin inflightActions

----------------------------------------------------------------------------
\* Properties of completeAction (SpecComplete)

CompletionLogs(events, message) ==
  SelectSeq(events, LAMBDA e : e.ev = "log" /\ e.tag = message)

\* C17: completeAction is idempotent on inflightActions. Two calls with the
\* same id leave the set as one call does, without the id and with every other
\* id as it was, while the status is published by each call and a message is
\* logged by each; and a call for an id that is not in the set leaves the set
\* unchanged.
CompleteActionIdempotentOnInFlight ==
  /\ [][ last'.op = "assistant/actionComplete twice" =>
           LET payload == last'.input
               once == handleActionComplete(World, payload)
           IN /\ inflightActions' = once.inflightActions
              /\ inflightActions' = inflightActions \ { payload.actionId }
              /\ Len(last'.completed) = 2
              /\ Len(StatusEvents(emitted')) = 2
              /\ payload.message # UNDEF =>
                   Len(CompletionLogs(emitted', payload.message)) = 2 ]_vars
  /\ [][ (last'.op = "assistant/actionComplete"
          /\ last'.input.actionId \notin inflightActions) =>
           /\ inflightActions' = inflightActions
           /\ Len(StatusEvents(emitted')) = 1 ]_vars

\* fmt, in flight together with lint, was completed twice with a message
CompletedTwiceWhileOtherInFlight ==
  /\ last.op = "assistant/actionComplete twice"
  /\ last.input.actionId = "fmt"
  /\ last.input.message = "done"
  /\ Len(last.completed) = 2
  /\ inflightActions = { "lint" }
  /\ Len(StatusEvents(emitted)) = 2
  /\ Len(CompletionLogs(emitted, "done")) = 2

----------------------------------------------------------------------------
\* Properties of dispose and applyConfiguration (SpecBridge)

\* C18: once the bridge is disposed no reconnect timer is pending, the bridge
\* holds no socket and no socket is connecting or open; the bridge stays
\* disposed, and no later step (socket event, timer, applyConfiguration) arms
\* a timer or opens a socket.
DisposeStopsReconnectAndSocket ==
  /\ [](disposed => /\ reconnectTimer # "pending"
                    /\ socket = 0
                    /\ LiveSockets = {})
  /\ [][ disposed => /\ disposed'
                     /\ reconnectTimer' # "pending"
                     /\ \A i \in SocketIds :
                          sockets'[i].rs \in { "CONNECTING", "OPEN" } => FALSE ]_vars

\* applyConfiguration with a valid endpoint was called on a disposed bridge
ConfiguredAfterDispose ==
  /\ disposed
  /\ last.op = "applyConfiguration"
  /\ config.enabled
  /\ config.endpoint = "ws://host"
  /\ LiveSockets = {}
  /\ \E i \in SocketIds : sockets[i].rs = "CLOSING"

\* a reconnect was armed in this step
Rearmed(events) ==
  \E k \in 1 .. Len(events) :
    events[k].ev = "log" /\ events[k].tag = "Retrying MCP bridge connection"

\* the timer that was pending is cancelled and the socket that was live is
\* terminated and detached
TimerAndSocketDropped ==
  /\ reconnectTimer' = "pending" => Rearmed(emitted')
  /\ \A i \in LiveSockets : sockets'[i].rs = "CLOSING" /\ ~sockets'[i].attached

\* connect() ran in this step
AttemptLogged(events) ==
  \E k \in 1 .. Len(events) :
    events[k].ev = "log" /\ events[k].tag = "Connecting to MCP bridge"

\* a connection attempt started in this step: the step ends in state
\* connecting on a socket that did not exist before, or, when no socket can
\* be constructed for the endpoint, the attempt has failed at once and the
\* step ends in state error with a reconnect armed
FreshAttempt ==
  /\ AttemptLogged(emitted')
  /\ IF ConstructorThrows(config'.endpoint)
     THEN /\ state' = "error"
          /\ socket' = 0
          /\ reconnectTimer' = "pending"
          /\ Rearmed(emitted')
     ELSE /\ state' = "connecting"
          /\ socket' # 0
          /\ sockets[socket'].rs = "CLOSED"
          /\ sockets'[socket'].rs = "CONNECTING"
          /\ sockets'[socket'].attached
          /\ reconnectTimer' # "pending"

\* C19 (as claimed): every applyConfiguration call, with a changed
\* configuration or not, cancels the pending reconnect timer and terminates
\* the live socket, and when the new configuration is enabled with an endpoint
\* a fresh connection attempt starts in the same step.
ApplyConfigurationRestarts ==
  [][ last'.op = "applyConfiguration" =>
        /\ TimerAndSocketDropped
        /\ (config'.enabled /\ config'.endpoint # UNDEF) => FreshAttempt ]_vars

\* C19 (amended): as above for the timer and the socket; the fresh attempt
\* starts when the bridge is not disposed, and a disposed bridge opens
\* nothing.
ApplyConfigurationRestartsUnlessDisposed ==
  [][ last'.op = "applyConfiguration" =>
        /\ config' = last'.input.config
        /\ TimerAndSocketDropped
        /\ (~disposed /\ config'.enabled /\ config'.endpoint # UNDEF) => FreshAttempt
        /\ disposed => socket' = 0 /\ reconnectTimer' # "pending" ]_vars

\* applyConfiguration with the configuration the bridge already had replaced
\* a live socket by a fresh one
ReappliedSameConfiguration ==
  /\ last.op = "applyConfiguration"
  /\ last.input.config = last.input.previous
  /\ ~disposed
  /\ state = "connecting"
  /\ socket # 0
  /\ sockets[socket].rs = "CONNECTING"
  /\ \E j \in SocketIds : j # socket /\ sockets[j].rs = "CLOSING" /\ ~sockets[j].attached

----------------------------------------------------------------------------
\* Properties of invokeRemoteAction (SpecCoord)

\* C20: invokeRemoteAction with an id that has no remote-action mapping shows
\* a warning and does nothing else: the warning is the only event of the step
\* (no outbound frame, no status, no log), and the in-flight set, the
\* mappings, the registry and the bridge are unchanged.
UnknownActionOnlyWarns ==
  [][ (last'.op = "invokeRemoteAction" /\ last'.input \notin DOMAIN remoteActions) =>
        /\ emitted' = << Ev("warning", "Unknown MCP action", last'.input, 0, "") >>
        /\ Outbound(emitted') = {}
        /\ StatusEvents(emitted') = << >>
        /\ inflightActions' = inflightActions
        /\ UNCHANGED << remoteActions, actionMap, sourceIndex, state, lastMessage,
                        socket, sockets, reconnectTimer, pendingEdits, procs >> ]_vars

\* zz, which no server advertised, was invoked on a ready bridge while fmt was
\* in flight
UnknownInvokedWhileReady ==
  /\ last.op = "invokeRemoteAction"
  /\ last.input = "zz"
  /\ state = "ready"
  /\ "fmt" \in DOMAIN remoteActions
  /\ inflightActions = { "fmt" }
  /\ Len(emitted) = 1
  /\ emitted[1].ev = "warning"

----------------------------------------------------------------------------
\* Properties of sendChatMessage (SpecChat)

ChatFrames(events) ==
  SelectSeq(events, LAMBDA e : e.ev = "bridgeMessage" /\ e.tag = "outbound"
                               /\ e.id = "assistant/chatMessage")

\* the text each message of ChatMessages is to go out as: hi, or h i, for
\* the texts that hold these letters, whatever white space is around them,
\* and nothing for the texts of white space alone
ExpectedChatText(message) ==
  CASE message \in { << 32, 104, 105, 32 >>, << 12, 104, 105, 12 >>,
                     << 160, 104, 105, 65279 >>, << 104, 105 >> } -> "hi"
    [] message = << 8233, 8195, 104, 32, 105, 5760, 11 >> -> "h i"
    [] OTHER -> ""

\* C21: sendChatMessage with a text that is empty after trimming does
\* nothing: no event, no change of state. With any other text it calls send
\* once with the trimmed text: the chat frame is published exactly when the
\* socket is open and send does not throw, and the status processing is
\* published exactly in that case.
ChatSendsTrimmedOrNothing ==
  [][ last'.op = "sendChatMessage" =>
        LET trimmed == ExpectedChatText(last'.input.message)
            sendSucceeds == /\ socket # 0
                            /\ sockets[socket].rs = "OPEN"
                            /\ ~last'.input.throws.raised
            frames == ChatFrames(emitted')
            published == StatusEvents(emitted')
        IN IF trimmed = ""
           THEN /\ emitted' = << >>
                /\ UNCHANGED << state, lastMessage, socket, sockets, reconnectTimer,
                                retryCount, inflightActions, remoteActions, actionMap >>
           ELSE /\ Len(frames) = (IF sendSucceeds THEN 1 ELSE 0)
                /\ Outbound(emitted') = { k \in 1 .. Len(emitted') :
                                            emitted'[k] \in { frames[j] : j \in 1 .. Len(frames) } }
                /\ sendSucceeds => frames[1].arg = trimmed
                /\ published = (IF sendSucceeds
                                THEN << Ev("status", "processing", "", 0, "") >>
                                ELSE << >>) ]_vars

\* a text between a no-break space and a byte order mark went out trimmed
\* on a ready bridge
ChatSentTrimmed ==
  /\ last.op = "sendChatMessage"
  /\ last.input.message = << 160, 104, 105, 65279 >>
  /\ Len(ChatFrames(emitted)) = 1
  /\ ChatFrames(emitted)[1].arg = "hi"
  /\ Len(StatusEvents(emitted)) = 1
  /\ StatusEvents(emitted)[1].tag = "processing"

----------------------------------------------------------------------------
\* Properties of the log sequence (SpecLog) and the log history (SpecPanel)

DigitValue(c) == CHOOSE d \in 0 .. 9 : ToString(d) = c

RECURSIVE ParseNat(_)
ParseNat(s) ==
  IF s = "" THEN 0
  ELSE 10 * ParseNat(SubSeq(s, 1, Len(s) - 1)) + DigitValue(SubSeq(s, Len(s), Len(s)))

\* the sequence number an id was derived from
IdNumber(id) == ParseNat(SubSeq(id, 5, Len(id)))

\* C22: over the log calls made so far, by a handler or by another caller,
\* before and after the disposal of the bus, the ids are the text log-
\* followed by a number, each number is greater than the one before it in
\* call order and no id occurs twice; every call returns an entry with a new
\* id. An entry a caller hands to publishLog is no call of log: it takes no
\* number and leaves the sequence where it was.
LogIdsStrictlyIncreasing ==
  /\ [](\A j \in DOMAIN issued :
          /\ StartsWith(issued[j].id, "log-")
          /\ j > 1 => IdNumber(issued[j - 1].id) < IdNumber(issued[j].id)
          /\ \A i \in 1 .. j - 1 : issued[i].id # issued[j].id)
  /\ [][ last'.op = "log" =>
           /\ Len(issued') = Len(issued) + 1
           /\ issued'[Len(issued')].id = last'.ret.id
           /\ \A i \in DOMAIN issued : issued[i].id # last'.ret.id ]_vars
  /\ [][ last'.op = "publishLog" =>
           /\ issued' = issued
           /\ logSequence' = logSequence ]_vars

\* a caller published an entry of its own, three log calls were delivered,
\* the bus was disposed and five more log calls were made
LoggedAfterDisposal ==
  /\ last.op = "log"
  /\ busDisposed
  /\ Len(issued) = 8
  /\ Len(delivered) = 4
  /\ delivered[1].id = "log-7"
  /\ last.ret.id = "log-8"

\* the last Min(n, LOG_LIMIT) of n entries
MostRecent(entries) ==
  SubSeq(entries, Len(entries) - Min(Len(entries), LOG_LIMIT) + 1, Len(entries))

LogPosts(messages) == SelectSeq(messages, LAMBDA m : m.type = "assistant.log")

\* the log events a step published
Published(before, after) == SubSeq(after, Len(before) + 1, Len(after))

\* C23: the panel's log history never holds more than 50 entries: it is the
\* most recent min(n, 50) of the n log events the panel received (those of
\* log and of publishLog, up to the disposal of the panel, which ends its
\* subscription and leaves the history as it is), in order of publication,
\* and resolving the webview posts exactly those entries in that order.
LogHistoryBounded ==
  /\ [](/\ Len(logEntries) <= 50
        /\ ~panelDisposed =>
             /\ Len(logEntries) = Min(Len(delivered), 50)
             /\ logEntries = MostRecent(delivered))
  /\ [][ logEntries' = IF panelDisposed THEN logEntries
                       ELSE MostRecent(logEntries \o Published(delivered, delivered')) ]_vars
  /\ [][ last'.op = "resolveWebviewView" =>
           /\ Len(LogPosts(posted')) = Len(logEntries)
           /\ \A k \in 1 .. Len(logEntries) :
                LogPosts(posted')[k].payload = logEntries[k] ]_vars

\* the webview was resolved after more entries than the history holds, the
\* first of them an entry a caller had published itself
ReplayedAfterOverflow ==
  /\ last.op = "resolveWebviewView"
  /\ ~panelDisposed
  /\ Len(delivered) = 53
  /\ delivered[1].id = "log-7"
  /\ Len(logEntries) = 50
  /\ logEntries[1].id = "log-3"
  /\ logEntries[50].id = "log-52"
  /\ Len(LogPosts(posted)) = 50

----------------------------------------------------------------------------
\* Properties of the socket handlers (SpecBridge)

BridgeStateEvents(events, st) ==
  { k \in 1 .. Len(events) : events[k].ev = "bridgeState" /\ events[k].tag = st }

\* C24 (as claimed): the open handler resets the retry counter, publishes the
\* state ready and then the hello frame, without the log of a sent message;
\* and the first outbound frame published on any connection is its hello
\* frame: a step that publishes another outbound frame runs on a socket
\* whose hello frame has gone out.
HelloFirstOnEveryConnection ==
  /\ [][ last'.op = "open" =>
           /\ retryCount' = 0
           /\ \E r \in BridgeStateEvents(emitted', "ready") :
                \A k \in Outbound(emitted') :
                  /\ emitted'[k].id = "assistant/hello"
                  /\ r < k
           /\ \A k \in 1 .. Len(emitted') : emitted'[k].tag # "Sent MCP message" ]_vars
  /\ [][ \A k \in Outbound(emitted') :
           \/ last'.op = "open" /\ emitted'[k].id = "assistant/hello"
           \/ socket # 0 /\ sockets[socket].greeted ]_vars

ErrorLogs(events, message) ==
  { k \in 1 .. Len(events) :
      events[k].ev = "log" /\ events[k].tag = message /\ events[k].id = "error" }

\* C25: when serialization or transmission throws inside send() on an open
\* socket (a direct send, or the hello send of the open handler), the call
\* returns false to a caller that goes on, no outbound bridge-message event is
\* published, an error with the text of the exception is logged and the
\* bridge state becomes error with that text as its message; the state is
\* published unless the bridge was in the error state with the same text.
SendFailureIsContained ==
  [][ (\/ /\ last'.op = "send"
          /\ last'.input.raised
          /\ socket # 0
          /\ sockets[socket].rs = "OPEN"
       \/ /\ last'.op = "open"
          /\ last'.input.raised)
      => /\ ~last'.ret
         /\ Outbound(emitted') = {}
         /\ ErrorLogs(emitted', "Failed to send MCP message: " \o last'.input.message) # {}
         /\ state' = "error"
         /\ lastMessage' = last'.input.message
         /\ (\E k \in BridgeStateEvents(emitted', "error") :
               emitted'[k].id = last'.input.message)
              <=> (\/ last'.op = "open"
                   \/ state # "error"
                   \/ lastMessage # last'.input.message)
         /\ socket' = socket
         /\ sockets'[socket'].rs = "OPEN" ]_vars

\* a context snapshot failed to go out on a bridge that an earlier failure
\* with another text had left in the error state: the state was published
\* again, with the new text, and the coordinator cleared the remote actions
\* once more
SendThrewOnReadyBridge ==
  /\ last.op = "send"
  /\ last.input.raised
  /\ last.input.message = "WebSocket is not open"
  /\ last.input.previous =
       [ state |-> "error", lastMessage |-> "Converting circular structure to JSON" ]
  /\ ~last.ret
  /\ state = "error"
  /\ lastMessage = "WebSocket is not open"
  /\ \E k \in BridgeStateEvents(emitted, "error") : emitted[k].id = "WebSocket is not open"
  /\ \E k \in 1 .. Len(emitted) :
       /\ emitted[k].ev = "log"
       /\ emitted[k].tag = "Cleared MCP actions due to bridge disconnect."
  /\ socket # 0
  /\ sockets[socket].rs = "OPEN"
  /\ sockets[socket].greeted

\* C26: an inbound frame that is not valid JSON is dropped: the step logs one
\* warning and publishes nothing else, no inbound bridge-message in
\* particular, and the bridge state, socket, retry counter and reconnect
\* timer, the coordinator and the registry are unchanged.
GarbageFrameDropped ==
  [][ last'.op = "message" =>
        /\ emitted' = << Ev("log", "Received non-JSON MCP payload", "warn", 0, "") >>
        /\ \A k \in 1 .. Len(emitted') : emitted'[k].ev # "bridgeMessage"
        /\ UNCHANGED << state, lastMessage, socket, sockets, retryCount, reconnectTimer,
                        disposed, config, remoteActions, inflightActions, actionMap >> ]_vars

\* a ready bridge received a frame that is not JSON
GarbageOnReadyBridge ==
  /\ last.op = "message"
  /\ state = "ready"
  /\ socket # 0
  /\ sockets[socket].rs = "OPEN"
  /\ Len(emitted) = 1
  /\ emitted[1].id = "warn"

\* the bridge holds no socket, none is connecting or open, no timer is armed
Quiet ==
  /\ socket = 0
  /\ LiveSockets = {}
  /\ reconnectTimer # "pending"

\* C27: a restart with a disabled configuration ends in state disconnected,
\* and one with an enabled configuration without endpoint in state error; in
\* both cases the bridge is left without socket and without pending timer,
\* and it stays so, in that state, until the configuration is replaced.
RestartWithoutTargetIsQuiet ==
  /\ [][ last'.op = "applyConfiguration" =>
           /\ ~config'.enabled => state' = "disconnected" /\ Quiet'
           /\ (config'.enabled /\ config'.endpoint = UNDEF) => state' = "error" /\ Quiet' ]_vars
  /\ []((~config.enabled \/ config.endpoint = UNDEF) => Quiet)
  /\ [][ (last'.op # "applyConfiguration"
          /\ (~config.enabled \/ config.endpoint = UNDEF))
         => UNCHANGED << state, lastMessage, retryCount >> ]_vars

\* the socket terminated by a restart without endpoint emitted its close
\* event
ClosedAfterRestartWithoutEndpoint ==
  /\ last.op = "close"
  /\ last.input = "terminated"
  /\ config.enabled
  /\ config.endpoint = UNDEF
  /\ state = "error"
  /\ ~disposed
  /\ Quiet

\* the bridge-state events of a step, in order of publication
StateEvents(events) == SelectSeq(events, LAMBDA e : e.ev = "bridgeState")

\* C28: bridge-state events are deduplicated. Each event of a step differs in
\* its (state, message) pair from the pair published before it, which for the
\* first event of the step is the pair the bridge held when the step began;
\* and the pair the bridge holds changes only by a published event: after the
\* step it is the pair of the step's last event, or the old pair when the
\* step published none.
BridgeStateDeduplicated ==
  [][ LET evs == StateEvents(emitted')
          Before(k) == IF k = 1 THEN << state, lastMessage >>
                       ELSE << evs[k - 1].tag, evs[k - 1].id >>
      IN /\ \A k \in 1 .. Len(evs) : << evs[k].tag, evs[k].id >> # Before(k)
         /\ << state', lastMessage' >> =
              (IF evs = << >> THEN << state, lastMessage >>
               ELSE << evs[Len(evs)].tag, evs[Len(evs)].id >>) ]_vars

\* the disabled configuration was applied again: the identical pair was not
\* republished
IdenticalPairNotRepublished ==
  /\ last.op = "applyConfiguration"
  /\ last.input.config = last.input.previous
  /\ ~config.enabled
  /\ state = "disconnected"
  /\ lastMessage = "MCP bridge disabled."
  /\ StateEvents(emitted) = << >>

----------------------------------------------------------------------------
\* Properties of terminated sockets (SpecTerminated)

\* C29: an open, message, error or close event of a socket that restart() or
\* dispose() has terminated has no effect: the step publishes nothing, no
\* inbound bridge-message in particular, and leaves the bridge state, the
\* retry counter, the reconnect timer, the held socket, the coordinator and
\* the registry unchanged.
TerminatedSocketIsInert ==
  [][ last'.op = "terminated" =>
        /\ emitted' = << >>
        /\ UNCHANGED << state, lastMessage, retryCount, reconnectTimer, reconnectDelay,
                        socket, config, disposed, remoteActions, inflightActions,
                        actionMap >>
        /\ \A j \in SocketIds : j # last'.input.socket => sockets'[j] = sockets[j] ]_vars

\* the socket a restart replaced emitted its close event while the next
\* connection was being made
ReplacedSocketClosed ==
  /\ last.op = "terminated"
  /\ last.input.event = "close"
  /\ ~disposed
  /\ state = "connecting"
  /\ socket # 0
  /\ socket # last.input.socket
  /\ sockets[socket].rs = "CONNECTING"
  /\ reconnectTimer # "pending"

----------------------------------------------------------------------------
\* Properties of the task normalisation (SpecNormalize)

\* the commands a step typed into the terminal, in order (the cd line apart)
TerminalCommands(events) ==
  LET lines == SelectSeq(events, LAMBDA e : e.ev = "sendText" /\ e.tag # "cd")
  IN [ k \in 1 .. Len(lines) |-> lines[k].tag ]

\* the line the terminal is to receive for an entry: the command and its
\* args with one blank between them, without the white space around the whole
TypedLine(entry) ==
  CASE entry = Entry(" step1 ", << >>) -> "step1"
    [] entry = Entry("step2", << "-v", "x" >>) -> "step2 -v x"
    [] entry = Entry("\f", << " a " >>) -> "a"
    [] entry = Entry("legacy", << "-q" >>) -> "legacy -q"
    [] OTHER -> entry.command

\* C30: a task request runs its explicit sequence when that is non-empty and
\* else its single legacy command: the terminal receives exactly those
\* commands in order, or a process run is started for exactly that list. A
\* request with neither, like a frame without a payload, logs a warning
\* (after the log of the frame's receipt) and does nothing else: no terminal
\* line, no process run, no completion, no status, and the in-flight set is
\* unchanged.
TaskRequestNormalised ==
  [][ last'.op = "assistant/taskRequest" =>
        LET payload == last'.input
            expected == IF IsAbsent(payload) THEN << >>
                        ELSE IF Len(payload.sequence) > 0 THEN payload.sequence
                        ELSE IF payload.command \notin { UNDEF, "" }
                        THEN << Entry(payload.command, payload.args) >>
                        ELSE << >>
        IN IF expected = << >>
           THEN /\ \E k \in 1 .. Len(emitted') :
                     /\ emitted'[k].ev = "log"
                     /\ emitted'[k].id = "warn"
                     /\ emitted'[k].tag =
                          (IF IsAbsent(payload) THEN "Received empty MCP task payload."
                           ELSE "MCP task request missing command(s).")
                /\ Len(SelectSeq(emitted', LAMBDA e : e.ev = "log")) = 2
                /\ \A k \in 1 .. Len(emitted') : emitted'[k].ev # "sendText"
                /\ procs' = procs
                /\ last'.completed = << >>
                /\ StatusEvents(emitted') = << >>
                /\ inflightActions' = inflightActions
           ELSE IF payload.mode = "process"
           THEN /\ Len(procs') = Len(procs) + 1
                /\ procs'[Len(procs')].cmds = expected
                /\ TerminalCommands(emitted') = << >>
           ELSE /\ TerminalCommands(emitted') =
                     [ k \in DOMAIN expected |-> TypedLine(expected[k]) ]
                /\ procs' = procs ]_vars

\* a process-mode request for fmt, in flight, carried no command at all
EmptyTaskRequestWhileInFlight ==
  /\ last.op = "assistant/taskRequest"
  /\ ~IsAbsent(last.input)
  /\ last.input.actionId = "fmt"
  /\ last.input.mode = "process"
  /\ last.input.sequence = << >>
  /\ last.input.command = UNDEF
  /\ "fmt" \in inflightActions
  /\ procs = << >>

----------------------------------------------------------------------------
\* Properties of terminal-mode task requests (SpecTerminal)

\* the lines a step typed into the terminal, in order
TerminalLines(events) ==
  LET lines == SelectSeq(events, LAMBDA e : e.ev = "sendText")
  IN [ k \in 1 .. Len(lines) |-> IF lines[k].tag = "cd" THEN lines[k].id ELSE lines[k].tag ]

\* the index of the last event of a kind in a step's events (0 when none)
LastIndex(events, kind) ==
  LET ks == { k \in 1 .. Len(events) : events[k].ev = kind }
  IN IF ks = {} THEN 0 ELSE CHOOSE k \in ks : \A j \in ks : j <= k

\* C31: a task request whose mode is not 'process' and that carries commands
\* types into the terminal the cd line first when a working directory is
\* given (double quotes doubled, the path in double quotes),
\* then every command in sequence order, and nothing else; when it names an
\* action it completes that action with success in the same step, after the
\* last line was typed, and starts no process whose result it would wait for.
TerminalRunCompletesAtOnce ==
  [][ (last'.op = "assistant/taskRequest" /\ last'.input.mode # "process") =>
        LET payload == last'.input
            commands == normalizeTaskSequence(payload)
            cd == IF payload.cwd \in { UNDEF, "" } THEN << >>
                  ELSE << IF payload.cwd = "/w" THEN "cd \"/w\"" ELSE "cd \"a\"\"b\"" >>
        IN commands # << >> =>
             /\ TerminalLines(emitted') =
                  cd \o [ k \in DOMAIN commands |-> TypedLine(commands[k]) ]
             /\ procs' = procs /\ pendingEdits' = pendingEdits
             /\ IF payload.actionId \in { UNDEF, "" }
                THEN /\ last'.completed = << >>
                     /\ inflightActions' = inflightActions
                ELSE /\ Len(last'.completed) = 1
                     /\ last'.completed[1].id = payload.actionId
                     /\ last'.completed[1].status = "success"
                     /\ last'.completed[1].message =
                          "Launched " \o ToString(Len(commands)) \o " terminal command(s)."
                     /\ payload.actionId \notin inflightActions'
                     /\ LastIndex(emitted', "status") > LastIndex(emitted', "sendText") ]_vars

\* fmt was in flight and a request of an unknown mode ran two commands, one
\* in blanks and one with args, in a directory whose name holds a double quote
TerminalRunInQuotedDirectory ==
  /\ last.op = "assistant/taskRequest"
  /\ last.input.mode = "shell"
  /\ last.input.actionId = "fmt"
  /\ last.input.cwd = "a\"b"
  /\ last.input.sequence = ArgSequence
  /\ TerminalLines(emitted) = << "cd \"a\"\"b\"", "step1", "step2 -v x" >>
  /\ last.completed # << >>
  /\ remoteActions # << >>

----------------------------------------------------------------------------
\* Properties of the dispatch (SpecDispatch)

\* the warnings of the coordinator's default case in a step's events
UnhandledWarnings(events) ==
  { k \in 1 .. Len(events) :
      /\ events[k].ev = "log"
      /\ events[k].id = "warn"
      /\ \E t \in UnknownTypes : events[k].tag = "Unhandled MCP message type: " \o t }

\* the calls that send a frame: commands, the open handler and the answer to
\* a context request
\* the logs of a send that raised, in a step's events
SendFailures(events) ==
  { k \in 1 .. Len(events) :
      events[k].ev = "log" /\ StartsWith(events[k].tag, "Failed to send MCP message: ") }

SendingOps ==
  { "send", "sendChatMessage", "invokeRemoteAction", "open", "assistant/contextRequest" }

\* C32: the update the bus publishes for a frame the bridge sends reaches the
\* coordinator and is dropped by it: in a step that sends (hello on open, an
\* invocation, a chat message, a context snapshot by command or on demand)
\* the registry and the remote-action mappings are unchanged, the in-flight
\* set and the status change only as the sending call itself changes them,
\* the frame is not taken for an inbound one (no warning of an unhandled
\* type) and exactly one frame goes out, not a second one in answer to it.
\* A send that raises publishes no outbound update at all (what follows it is
\* the bridge's change to the error state, not a frame looping back).
OutboundUpdatesIgnored ==
  [][ last'.op \in SendingOps =>
        LET sent == Outbound(emitted') # {}
        IN IF SendFailures(emitted') # {} THEN ~sent
           ELSE
           /\ Cardinality(Outbound(emitted')) <= 1
           /\ UnhandledWarnings(emitted') = {}
           /\ actionMap' = actionMap
           /\ actionSources' = actionSources
           /\ sourceIndex' = sourceIndex
           /\ remoteActions' = remoteActions
           /\ inflightActions' =
                IF last'.op = "invokeRemoteAction" /\ sent
                THEN inflightActions \cup { last'.input }
                ELSE inflightActions
           /\ Len(StatusEvents(emitted')) =
                IF last'.op \in { "invokeRemoteAction", "sendChatMessage" } /\ sent
                THEN 1 ELSE 0 ]_vars

\* a context request was answered with a snapshot while lint was in flight
SnapshotSentOnDemand ==
  /\ last.op = "assistant/contextRequest"
  /\ \E k \in Outbound(emitted) : emitted[k].id = "context.snapshot"
  /\ inflightActions = { "lint" }
  /\ "lint" \in DOMAIN remoteActions

\* C33: an inbound frame of a type the coordinator has no case for (an
\* invented type, or one of the client's own types echoed back) produces
\* exactly one warning, the one that names the type, and nothing else
\* changes: the registry, the remote-action mappings, the in-flight set, the
\* bridge (state, message, socket, timer, retry counter) and the awaited work
\* are as before, no status is published, no action is completed and no
\* frame is sent.
UnknownTypeOnlyWarns ==
  [][ last'.op \in UnknownTypes =>
        /\ { k \in 1 .. Len(emitted') : emitted'[k].ev = "log" /\ emitted'[k].id = "warn" }
             = UnhandledWarnings(emitted')
        /\ Cardinality(UnhandledWarnings(emitted')) = 1
        /\ \A k \in UnhandledWarnings(emitted') :
             emitted'[k].tag = "Unhandled MCP message type: " \o last'.op
        /\ \A k \in 1 .. Len(emitted') :
             emitted'[k].ev \in { "log", "bridgeMessage" }
        /\ Outbound(emitted') = {}
        /\ StatusEvents(emitted') = << >>
        /\ last'.completed = << >>
        /\ UNCHANGED << actionMap, actionSources, sourceIndex, remoteActions,
                        inflightActions, state, lastMessage, socket, sockets,
                        reconnectTimer, retryCount, pendingEdits, procs >> ]_vars

\* the server echoed a hello frame while fmt was in flight
HelloEchoedWhileInFlight ==
  /\ last.op = "assistant/hello"
  /\ UnhandledWarnings(emitted) # {}
  /\ "fmt" \in inflightActions
  /\ state = "ready"

----------------------------------------------------------------------------
\* Properties of a disposed coordinator (SpecDisposed)

\* what the bridge itself logs when a frame arrives or the connection fails
BridgeLogs ==
  { "MCP message received", "MCP bridge closed", "MCP bridge error",
    "Retrying MCP bridge connection" }

\* the events of a step that are not the bridge's own
CoordinatorEvents(events) ==
  { k \in 1 .. Len(events) :
      \/ events[k].ev \notin { "log", "bridgeMessage", "bridgeState" }
      \/ events[k].ev = "log" /\ events[k].tag \notin BridgeLogs
      \/ events[k].ev = "bridgeMessage" /\ events[k].tag = "outbound" }

\* the steps the coordinator's two listeners would react to
ListenedOps ==
  { "assistant/registerActions", "assistant/taskRequest", "assistant/actionComplete",
    "assistant/contextRequest", "assistant/chatResponse", "assistant/bogus",
    "close", "error" }

\* C34: once the coordinator is disposed an inbound frame and a bridge state
\* change (the connection closing or failing) have no coordinator effect: no
\* registry change, no mapping, in-flight or awaited-work change, no frame
\* sent, no status, no action list, no log but the bridge's own. A process
\* run started before the disposal goes on all the same: when its running
\* child exits with code 0 the next entry of the sequence is started, and
\* when the spawn of that entry raises the run ends as it would have: no
\* child, the failure logged and the action completed with the error.
DisposedCoordinatorIsDeaf ==
  /\ [][ (coordDisposed /\ last'.op \in ListenedOps) =>
           /\ CoordinatorEvents(emitted') = {}
           /\ last'.completed = << >>
           /\ UNCHANGED << actionMap, actionSources, sourceIndex, remoteActions,
                           inflightActions, pendingEdits, procs >> ]_vars
  /\ [][ (coordDisposed /\ last'.op = "processSettled"
            /\ last'.input.outcome = "exit-0") =>
           LET k == last'.input.run
               j == last'.input.child
           IN j < Len(procs[k].cmds) =>
                /\ coordDisposed'
                /\ IF procs[k].cmds[j + 1].command # ""
                   THEN /\ procs'[k].children =
                             Append([ procs[k].children EXCEPT ![j] = "exit-0" ], "running")
                        /\ \E e \in 1 .. Len(emitted') :
                             /\ emitted'[e].ev = "log"
                             /\ emitted'[e].tag = "Running MCP task (process): "
                                                    \o procs[k].cmds[j + 1].command
                        /\ last'.completed = << >>
                   ELSE /\ procs'[k].children = [ procs[k].children EXCEPT ![j] = "exit-0" ]
                        /\ \A e \in 1 .. Len(emitted') :
                             ~StartsWith(emitted'[e].tag, "Running MCP task")
                        /\ ErrorLogs(emitted', "MCP task failed: The argument 'file' "
                                                 \o "cannot be empty. Received ''") # {}
                        /\ procs[k].actionId \notin { UNDEF, "" } =>
                             /\ Len(last'.completed) = 1
                             /\ last'.completed[1].id = procs[k].actionId
                             /\ last'.completed[1].status = "error" ]_vars

\* after the disposal the connection closed with fmt still registered, and
\* the run's second entry was started
SecondEntryStartedAfterDisposal ==
  /\ coordDisposed
  /\ last.op = "processSettled"
  /\ Len(procs) = 1
  /\ procs[1].children = << "exit-0", "running" >>
  /\ state # "ready"
  /\ "mcp:fmt" \in DOMAIN actionMap

----------------------------------------------------------------------------
\* Properties of the assistant status (SpecDispatch)

IdlePublished(events) ==
  \E k \in 1 .. Len(events) : events[k].ev = "status" /\ events[k].tag = "idle"

\* C35 (as claimed): a step that publishes the status idle leaves no remote
\* action in flight.
IdleOnlyWhenNothingInFlight ==
  [][ IdlePublished(emitted') => inflightActions' = {} ]_vars

\* C35 (amended): a step that publishes the status idle leaves no remote
\* action in flight unless it handles a chat response; a chat response with a
\* message publishes idle as its only status and leaves the in-flight set as
\* it was, empty or not.
IdleOnlyWhenNothingInFlightOrChatResponse ==
  /\ [][ IdlePublished(emitted') =>
           (inflightActions' = {} \/ last'.op = "assistant/chatResponse") ]_vars
  /\ [][ last'.op = "assistant/chatResponse" =>
           /\ inflightActions' = inflightActions
           /\ IF last'.input.message \in { UNDEF, "" }
              THEN StatusEvents(emitted') = << >>
              ELSE /\ Len(StatusEvents(emitted')) = 1
                   /\ IdlePublished(emitted') ]_vars

\* a chat response arrived while fmt was awaiting its completion
ChatResponseWhileInFlight ==
  /\ last.op = "assistant/chatResponse"
  /\ IdlePublished(emitted)
  /\ "fmt" \in inflightActions

----------------------------------------------------------------------------
\* Properties of the registry's indexes (SpecIndexes)

\* actionMap, actionSources and the buckets of sourceIndex hold the same
\* ids, every id in exactly one bucket, that of its recorded source
IndexesAgree ==
  /\ DOMAIN actionMap = DOMAIN actionSources
  /\ DOMAIN actionMap = UNION { sourceIndex[s] : s \in DOMAIN sourceIndex }
  /\ \A id \in DOMAIN actionMap :
       /\ Cardinality({ s \in DOMAIN sourceIndex : id \in sourceIndex[s] }) = 1
       /\ actionSources[id] \in DOMAIN sourceIndex
       /\ id \in sourceIndex[actionSources[id]]

\* every stored action carries its map key and its owning source
FieldsAgree ==
  \A id \in DOMAIN actionMap :
    /\ actionMap[id].id = id
    /\ id \in DOMAIN actionSources
    /\ actionMap[id].source = actionSources[id]

\* C36 (as claimed): after any sequence of setActionsForSource,
\* registerAction and updateAction calls the three indexes hold the same ids,
\* every id lies in exactly one bucket, and every stored action's id and
\* source fields equal its map key and its owning bucket.
RegistryIndexesAgree == IndexesAgree /\ FieldsAgree

----------------------------------------------------------------------------
\* Properties that tie the bridge state to the socket and the timer (SpecBridge)

\* C37 (as claimed): while the state is ready the bridge holds a socket and
\* that socket is open; a step that ends with the bridge's socket gone,
\* replaced or no longer open does not end in the state ready.
ReadyHoldsOpenSocket ==
  /\ [](state = "ready" => (socket # 0 /\ sockets[socket].rs = "OPEN"))
  /\ [][ (/\ state = "ready"
          /\ socket # 0
          /\ (socket' # socket \/ sockets'[socket].rs # "OPEN"))
         => state' # "ready" ]_vars

\* C38: at most one reconnect timer is armed, the one whose handle the
\* bridge holds, and none is armed while a socket is connecting or open. A
\* timer is armed only by the close event of the bridge's socket or by a
\* connection attempt whose socket could not be created; dispose() leaves no
\* timer armed, and after applyConfiguration (restart) the only timer that can
\* be armed is one the restart's own failed attempt armed.
OneReconnectTimer ==
  /\ [](/\ timers \in { 0, 1 }
        /\ timers = 1 <=> reconnectTimer = "pending"
        /\ timers = 1 => LiveSockets = {})
  /\ [][ Rearmed(emitted') =>
           \/ last'.op = "close"
           \/ /\ last'.op \in { "applyConfiguration", "timer" }
              /\ ConstructorThrows(config'.endpoint)
              /\ socket' = 0 \/ sockets'[socket'].rs = "CLOSED" ]_vars
  /\ [][ last'.op = "dispose" => timers' = 0 ]_vars
  /\ [][ last'.op = "applyConfiguration" => (timers' = 0 \/ Rearmed(emitted')) ]_vars

\* dispose() was called while a reconnect was pending after failures
DisposedWhileReconnectPending ==
  /\ last.op = "dispose"
  /\ retryCount > 1
  /\ config.enabled
  /\ config.endpoint = "ws://host"
  /\ \A i \in SocketIds : sockets[i].rs = "CLOSED"
  /\ timers = 0
  /\ reconnectTimer = UNDEF

\* C39 (as claimed): the retry counter changes only when a reconnect is
\* scheduled (by one) and when a socket opens (to zero); applyConfiguration,
\* a send and a socket error event leave it unchanged.
RetryCountChangesInTwoPlaces ==
  /\ [][ retryCount' # retryCount =>
           \/ retryCount' = retryCount + 1 /\ Rearmed(emitted')
           \/ retryCount' = 0 /\ last'.op = "open" ]_vars
  /\ [][ last'.op \in { "applyConfiguration", "send", "error" } =>
           retryCount' = retryCount ]_vars

\* C39 (amended): the retry counter changes only when a reconnect is
\* scheduled (by one, every time) and when a socket opens (to zero, every
\* time). A send and a socket error event leave it unchanged;
\* applyConfiguration never resets it: it leaves it unchanged unless the
\* socket of the new attempt cannot be created, and then the reconnect it
\* schedules in the same call adds one to the previous count.
RetryCountChangesOnScheduleAndOpen ==
  /\ [][ retryCount' # retryCount =>
           \/ retryCount' = retryCount + 1 /\ Rearmed(emitted')
           \/ retryCount' = 0 /\ last'.op = "open" ]_vars
  /\ [][ Rearmed(emitted') => retryCount' = retryCount + 1 ]_vars
  /\ [][ last'.op = "open" => retryCount' = 0 ]_vars
  /\ [][ last'.op \in { "send", "error" } => retryCount' = retryCount ]_vars
  /\ [][ last'.op = "applyConfiguration" =>
           IF ~disposed /\ config'.enabled /\ config'.endpoint # UNDEF
              /\ ConstructorThrows(config'.endpoint)
           THEN retryCount' = retryCount + 1
           ELSE retryCount' = retryCount ]_vars

\* the configuration changed after two failures and the new attempt starts
\* with the count of the old ones
ReconfiguredAfterFailures ==
  /\ last.op = "applyConfiguration"
  /\ last.input.config # last.input.previous
  /\ retryCount = 2
  /\ socket # 0
  /\ sockets[socket].rs = "CONNECTING"

----------------------------------------------------------------------------
\* Properties of the auto-refactor controller (SpecAuto)

\* the result of request r is the stored suggestion and the preview of its
\* document
StoredAndPreviewed(r, sugg, prev) ==
  /\ r.key \in DOMAIN sugg
  /\ sugg[r.key] = [ refactored |-> r.id, documentVersion |-> r.version ]
  /\ r.key \in DOMAIN prev
  /\ prev[r.key] = r.id

\* the request passes the test runRefactor makes after refactorCode resolved
StillCurrent(r) == r.id = activeRequest /\ docVersion[r.key] = r.version

\* C40: when refactorCode resolves for a request, its result is stored as
\* the suggestion of its document and announced, and previewed unless a call
\* before the preview threw, if the request is still the one started last by
\* the controller (for any document) and the document has the version it had
\* when the request started; otherwise the result is discarded: suggestions
\* and previews stay as they were and nothing is announced. No other step
\* stores a suggestion or a preview. Requests complete in any order.
SupersededResultsDiscarded ==
  /\ [][ last'.op = "refactorResolved" =>
           LET r == last'.input.request
           IN IF StillCurrent(r)
              THEN /\ r.key \in DOMAIN suggestions'
                   /\ suggestions'[r.key] = [ refactored |-> r.id,
                                              documentVersion |-> r.version ]
                   /\ last'.ret.notified = << r.id >>
                   /\ \A key \in Docs \ { r.key } :
                        /\ key \in DOMAIN suggestions' <=> key \in DOMAIN suggestions
                        /\ key \in DOMAIN suggestions => suggestions'[key] = suggestions[key]
                   /\ IF last'.input.throws.at = ""
                      THEN StoredAndPreviewed(r, suggestions', previews')
                      ELSE previews' = previews
              ELSE /\ suggestions' = suggestions
                   /\ previews' = previews
                   /\ last'.ret.notified = << >> ]_vars
  /\ [][ (\E key \in Docs :
            \/ /\ key \in DOMAIN suggestions'
               /\ key \in DOMAIN suggestions => suggestions'[key] # suggestions[key]
            \/ /\ key \in DOMAIN previews'
               /\ key \in DOMAIN previews => previews'[key] # previews[key])
         => /\ last'.op = "refactorResolved"
            /\ StillCurrent(last'.input.request) ]_vars

\* the second request completed first and its result was stored; then the
\* first request, on the other document and at an unchanged version,
\* completed and was discarded
EarlierRequestCompletedLast ==
  /\ last.op = "refactorResolved"
  /\ last.input.request.id = 1
  /\ docVersion[last.input.request.key] = last.input.request.version
  /\ activeRequest = 2
  /\ \E key \in DOMAIN suggestions :
       /\ key # last.input.request.key
       /\ suggestions[key].refactored = 2
  /\ last.input.request.key \notin DOMAIN suggestions

====
